---------------------------- MODULE Spec2Model ----------------------------
(***************************************************************************)
(* The conversational shopping assistant of the storefront                 *)
(* (src/components/Assistant.tsx) together with the cart store it drives   *)
(* (context/CartContext.tsx).                                              *)
(*                                                                         *)
(* Text is modelled character by character: a string is a sequence of     *)
(* one-character strings, so that String.prototype.includes, split, trim  *)
(* and toLowerCase are computed as JavaScript computes them (a keyword    *)
(* can match inside a longer word, an empty token matches everywhere).    *)
(***************************************************************************)
EXTENDS Integers, Sequences, FiniteSets, TLC

(***************************************************************************)
(* String primitives                                                       *)
(***************************************************************************)
Min(a, b) == IF a < b THEN a ELSE b

Max(a, b) == IF a > b THEN a ELSE b

UpperChars == <<"A","B","C","D","E","F","G","H","I","J","K","L","M","N","O","P","Q","R","S","T","U","V","W","X","Y","Z">>

LowerChars == <<"a","b","c","d","e","f","g","h","i","j","k","l","m","n","o","p","q","r","s","t","u","v","w","x","y","z">>

\* The position of each upper-case letter in the alphabet.
upperIndex == [c \in {UpperChars[i] : i \in DOMAIN UpperChars} |->
                 CHOOSE i \in DOMAIN UpperChars : UpperChars[i] = c]

\* String.prototype.toLowerCase, one character.
toLowerChar(c) ==
  IF c \in DOMAIN upperIndex THEN LowerChars[upperIndex[c]] ELSE c

RECURSIVE toLowerCase(_)
\* String.prototype.toLowerCase.
toLowerCase(s) ==
  IF s = <<>> THEN <<>> ELSE <<toLowerChar(Head(s))>> \o toLowerCase(Tail(s))

\* String.prototype.includes: t occurs in s as a contiguous substring
\* (the empty string occurs in every string).
includes(s, t) ==
  \E i \in 0..(Len(s) - Len(t)) : \A j \in 1..Len(t) : s[i + j] = t[j]

\* String.prototype.startsWith.
startsWith(s, t) ==
  Len(t) <= Len(s) /\ \A j \in 1..Len(t) : s[j] = t[j]

RECURSIVE split(_)
\* String.prototype.split(' '): the pieces between single spaces, empty
\* pieces included.
split(s) ==
  IF \E i \in DOMAIN s : s[i] = " "
    THEN LET i == CHOOSE k \in DOMAIN s :
                    s[k] = " " /\ \A m \in 1..(k - 1) : s[m] # " "
         IN  <<SubSeq(s, 1, i - 1)>> \o split(SubSeq(s, i + 1, Len(s)))
    ELSE <<s>>

\* String.prototype.trim (the only white space the model types is " ").
trim(s) ==
  IF \A i \in DOMAIN s : s[i] = " "
    THEN <<>>
    ELSE LET a == CHOOSE k \in DOMAIN s :
                    s[k] # " " /\ \A m \in 1..(k - 1) : s[m] = " "
             b == CHOOSE k \in DOMAIN s :
                    s[k] # " " /\ \A m \in (k + 1)..Len(s) : s[m] = " "
         IN  SubSeq(s, a, b)

\* Array.prototype.slice(start, end), negative positions counted from the end.
slice(a, start, end) ==
  LET from == IF start < 0 THEN Max(Len(a) + start, 0) ELSE Min(start, Len(a))
      to   == IF end < 0 THEN Max(Len(a) + end, 0) ELSE Min(end, Len(a))
  IN  IF from < to THEN SubSeq(a, from + 1, to) ELSE <<>>

\* Array.prototype.slice(start): to the end of the array.
sliceFrom(a, start) == slice(a, start, Len(a))

\* Array.prototype.some over a list of phrases: some phrase occurs in s.
somePhraseIn(phrases, s) == \E i \in DOMAIN phrases : includes(s, phrases[i])

RECURSIVE join(_, _)
\* Array.prototype.join(sep).
join(parts, sep) ==
  IF parts = <<>> THEN <<>>
  ELSE IF Len(parts) = 1 THEN parts[1]
  ELSE parts[1] \o sep \o join(Tail(parts), sep)

(***************************************************************************)
(* Strings held in the state and in the catalog are kept word by word: a   *)
(* string is the sequence of the space-free words between its single       *)
(* spaces (what split(' ') returns and join(' ') undoes), so "" is <<"">>  *)
(* and " " is <<"", "">>.  chars spells a word; textOf gives the string's  *)
(* characters, on which every string operation of the code is computed.   *)
(***************************************************************************)
chars ==
     "" :> <<>>
  @@ "Do" :> <<"D","o">>
  @@ "do" :> <<"d","o">>
  @@ "you" :> <<"y","o","u">>
  @@ "have" :> <<"h","a","v","e">>
  @@ "any" :> <<"a","n","y">>
  @@ "books?" :> <<"b","o","o","k","s","?">>
  @@ "shoes?" :> <<"s","h","o","e","s","?">>
  @@ "What" :> <<"W","h","a","t">>
  @@ "phones" :> <<"p","h","o","n","e","s">>
  @@ "have?" :> <<"h","a","v","e","?">>
  @@ "hello" :> <<"h","e","l","l","o">>
  @@ "add" :> <<"a","d","d">>
  @@ "Add" :> <<"A","d","d">>
  @@ "it" :> <<"i","t">>
  @@ "remove" :> <<"r","e","m","o","v","e">>
  @@ "both" :> <<"b","o","t","h">>
  @@ "all" :> <<"a","l","l">>
  @@ "the" :> <<"t","h","e">>
  @@ "first" :> <<"f","i","r","s","t">>
  @@ "second" :> <<"s","e","c","o","n","d">>
  @@ "third" :> <<"t","h","i","r","d">>
  @@ "last" :> <<"l","a","s","t">>
  @@ "one" :> <<"o","n","e">>
  @@ "this" :> <<"t","h","i","s">>
  @@ "that" :> <<"t","h","a","t">>
  @@ "with" :> <<"w","i","t","h">>
  @@ "1st" :> <<"1","s","t">>
  @@ "2nd" :> <<"2","n","d">>
  @@ "3rd" :> <<"3","r","d">>
  @@ "Running" :> <<"R","u","n","n","i","n","g">>
  @@ "Sneakers" :> <<"S","n","e","a","k","e","r","s">>
  @@ "sneakers" :> <<"s","n","e","a","k","e","r","s">>
  @@ "running" :> <<"r","u","n","n","i","n","g">>
  @@ "The" :> <<"T","h","e">>
  @@ "Art" :> <<"A","r","t">>
  @@ "of" :> <<"o","f">>
  @@ "Programming" :> <<"P","r","o","g","r","a","m","m","i","n","g">>
  @@ "Modern" :> <<"M","o","d","e","r","n">>
  @@ "Web" :> <<"W","e","b">>
  @@ "Design" :> <<"D","e","s","i","g","n">>
  @@ "Organic" :> <<"O","r","g","a","n","i","c">>
  @@ "Coffee" :> <<"C","o","f","f","e","e">>
  @@ "Books" :> <<"B","o","o","k","s">>
  @@ "Fashion" :> <<"F","a","s","h","i","o","n">>
  @@ "Food" :> <<"F","o","o","d">>
  @@ "&" :> <<"&">>
  @@ "Beverage" :> <<"B","e","v","e","r","a","g","e">>
  @@ "A" :> <<"A">>
  @@ "comprehensive" :> <<"c","o","m","p","r","e","h","e","n","s","i","v","e">>
  @@ "guide" :> <<"g","u","i","d","e">>
  @@ "Latest" :> <<"L","a","t","e","s","t">>
  @@ "design" :> <<"d","e","s","i","g","n">>
  @@ "trends" :> <<"t","r","e","n","d","s">>
  @@ "Advanced" :> <<"A","d","v","a","n","c","e","d">>
  @@ "cushioning" :> <<"c","u","s","h","i","o","n","i","n","g">>
  @@ "Fair" :> <<"F","a","i","r">>
  @@ "trade" :> <<"t","r","a","d","e">>
  @@ "beans" :> <<"b","e","a","n","s">>
  @@ "Real-world" :> <<"R","e","a","l","-","w","o","r","l","d">>
  @@ "examples" :> <<"e","x","a","m","p","l","e","s">>
  @@ "techniques" :> <<"t","e","c","h","n","i","q","u","e","s">>
  @@ "Breathable" :> <<"B","r","e","a","t","h","a","b","l","e">>
  @@ "mesh" :> <<"m","e","s","h">>
  @@ "Dark" :> <<"D","a","r","k">>
  @@ "roast" :> <<"r","o","a","s","t">>
  @@ "Sure." :> <<"S","u","r","e",".">>
  @@ "not" :> <<"n","o","t">>
  @@ "then" :> <<"t","h","e","n">>
  @@ "cart" :> <<"c","a","r","t">>
  @@ "from" :> <<"f","r","o","m">>
  @@ "to" :> <<"t","o">>

textOf(words) == join([i \in DOMAIN words |-> chars[words[i]]], <<" ">>)

(***************************************************************************)
(* Phrase tables of the assistant                                          *)
(***************************************************************************)
addPatterns ==
  << <<"a","d","d"," ","t","o"," ","c","a","r","t">>,
     <<"a","d","d"," ","i","t">>,
     <<"a","d","d"," ","t","h","i","s">>,
     <<"a","d","d"," ","t","h","a","t">>,
     <<"b","u","y"," ","i","t">>,
     <<"b","u","y"," ","t","h","i","s">>,
     <<"p","u","r","c","h","a","s","e"," ","i","t">>,
     <<"p","u","r","c","h","a","s","e"," ","t","h","i","s">>,
     <<"g","e","t"," ","i","t">>,
     <<"g","e","t"," ","t","h","i","s">>,
     <<"i"," ","w","a","n","t"," ","i","t">>,
     <<"i"," ","w","a","n","t"," ","t","h","i","s">>,
     <<"i","'","l","l"," ","t","a","k","e"," ","i","t">>,
     <<"i","'","l","l"," ","t","a","k","e"," ","t","h","i","s">>,
     <<"a","d","d"," ","t","h","e"," ","f","i","r","s","t">>,
     <<"a","d","d"," ","t","h","e"," ","s","e","c","o","n","d">>,
     <<"a","d","d"," ","t","h","e"," ","t","h","i","r","d">>,
     <<"a","d","d"," ","b","o","t","h">>,
     <<"a","d","d"," ","a","l","l">> >>

removePatterns ==
  << <<"r","e","m","o","v","e"," ","f","r","o","m"," ","c","a","r","t">>,
     <<"r","e","m","o","v","e"," ","i","t">>,
     <<"r","e","m","o","v","e"," ","t","h","i","s">>,
     <<"d","e","l","e","t","e"," ","i","t">>,
     <<"d","e","l","e","t","e"," ","t","h","i","s">>,
     <<"t","a","k","e"," ","i","t"," ","o","u","t">>,
     <<"d","o","n","'","t"," ","w","a","n","t"," ","i","t">> >>

productInquiries ==
  << <<"d","o"," ","y","o","u"," ","h","a","v","e">>,
     <<"w","h","a","t">>,
     <<"a","n","y">>,
     <<"s","h","o","w"," ","m","e">>,
     <<"l","o","o","k","i","n","g"," ","f","o","r">>,
     <<"n","e","e","d">>,
     <<"w","a","n","t">>,
     <<"s","e","l","l">>,
     <<"a","v","a","i","l","a","b","l","e">>,
     <<"g","o","t">>,
     <<"f","i","n","d">>,
     <<"s","e","a","r","c","h">>,
     <<"r","e","c","o","m","m","e","n","d">>,
     <<"s","u","g","g","e","s","t">> >>

productTypes ==
  << <<"b","o","o","k">>,
     <<"l","a","p","t","o","p">>,
     <<"p","h","o","n","e">>,
     <<"s","h","o","e">>,
     <<"c","l","o","t","h","e","s">>,
     <<"e","l","e","c","t","r","o","n","i","c","s">>,
     <<"f","a","s","h","i","o","n">>,
     <<"h","o","m","e">>,
     <<"f","o","o","d">>,
     <<"c","o","f","f","e","e">>,
     <<"c","o","m","p","u","t","e","r">>,
     <<"d","e","v","i","c","e">>,
     <<"s","n","e","a","k","e","r">>,
     <<"b","a","g">> >>

\* The category groups of the relevance scorer: <<category, keywords>>.
patterns ==
  << << <<"b","o","o","k","s">>,
        << <<"b","o","o","k">>,
           <<"b","o","o","k","s">>,
           <<"r","e","a","d">>,
           <<"p","r","o","g","r","a","m","m","i","n","g">>,
           <<"d","e","s","i","g","n">>,
           <<"l","e","a","r","n","i","n","g">> >> >>,
     << <<"e","l","e","c","t","r","o","n","i","c","s">>,
        << <<"p","h","o","n","e">>,
           <<"l","a","p","t","o","p">>,
           <<"c","o","m","p","u","t","e","r">>,
           <<"t","e","c","h">>,
           <<"e","l","e","c","t","r","o","n","i","c">>,
           <<"d","e","v","i","c","e">>,
           <<"m","o","u","s","e">>,
           <<"h","e","a","d","p","h","o","n","e">> >> >>,
     << <<"f","a","s","h","i","o","n">>,
        << <<"c","l","o","t","h","e","s">>,
           <<"c","l","o","t","h","i","n","g">>,
           <<"w","e","a","r">>,
           <<"f","a","s","h","i","o","n">>,
           <<"s","h","o","e">>,
           <<"s","h","o","e","s">>,
           <<"s","n","e","a","k","e","r">>,
           <<"c","o","a","t">>,
           <<"b","a","g">>,
           <<"h","a","n","d","b","a","g">> >> >>,
     << <<"h","o","m","e">>,
        << <<"h","o","m","e">>,
           <<"g","a","r","d","e","n">>,
           <<"h","o","u","s","e">>,
           <<"d","e","c","o","r">>,
           <<"l","a","m","p">>,
           <<"p","l","a","n","t">>,
           <<"p","o","t">> >> >>,
     << <<"f","o","o","d">>,
        << <<"c","o","f","f","e","e">>,
           <<"f","o","o","d">>,
           <<"d","r","i","n","k">>,
           <<"b","e","v","e","r","a","g","e">>,
           <<"o","r","g","a","n","i","c">> >> >> >>

(***************************************************************************)
(* The catalog (data/products.json, imported as productsData).  The file   *)
(* is data, not code; the model's catalog holds the products the prompt's  *)
(* own examples name, one product per remaining quick action, and one     *)
(* product that is out of stock.  badge "" stands for an absent badge.     *)
(***************************************************************************)
productsData ==
  << [id |-> 1, name |-> <<"The", "Art", "of", "Programming">>,
      category |-> <<"Books">>, description |-> <<"A", "comprehensive", "guide">>,
      features |-> << <<"Real-world", "examples">> >>,
      badge |-> "Bestseller", inStock |-> TRUE, price |-> 45],
     [id |-> 2, name |-> <<"Modern", "Web", "Design">>,
      category |-> <<"Books">>, description |-> <<"Latest", "design", "trends">>,
      features |-> << <<"Design", "techniques">> >>,
      badge |-> "", inStock |-> TRUE, price |-> 39],
     [id |-> 3, name |-> <<"Running", "Sneakers">>,
      category |-> <<"Fashion">>, description |-> <<"Advanced", "cushioning">>,
      features |-> << <<"Breathable", "mesh">> >>,
      badge |-> "Popular", inStock |-> TRUE, price |-> 129],
     [id |-> 4, name |-> <<"Organic", "Coffee">>,
      category |-> <<"Food", "&", "Beverage">>, description |-> <<"Fair", "trade", "beans">>,
      features |-> << <<"Dark", "roast">> >>,
      badge |-> "New", inStock |-> FALSE, price |-> 24] >>

ProductIds == {productsData[i].id : i \in DOMAIN productsData}

\* productsData.find(p => p.id === id), for an id of the catalog.
productById(id) ==
  productsData[CHOOSE i \in DOMAIN productsData : productsData[i].id = id]

\* products.map(p => p.name): products are carried by id.
namesOf(products) == [i \in DOMAIN products |-> productById(products[i]).name]

(***************************************************************************)
(* isAskingForProducts: the product-seeking heuristic                      *)
(***************************************************************************)
isAskingForProducts(query) ==
  LET lowerQuery == toLowerCase(query)
      hasInquiry == somePhraseIn(productInquiries, lowerQuery)
      hasProductType == somePhraseIn(productTypes, lowerQuery)
      isQuestion == \/ includes(lowerQuery, <<"?">>)
                    \/ startsWith(lowerQuery, <<"w","h","a","t">>)
                    \/ startsWith(lowerQuery, <<"d","o"," ","y","o","u">>)
                    \/ startsWith(lowerQuery, <<"c","a","n"," ","y","o","u">>)
  IN  (hasInquiry /\ hasProductType) \/ (isQuestion /\ hasProductType)

(***************************************************************************)
(* determineProductsFromContext: the referent resolver.  availableProducts *)
(* is the window (lastSuggestedProducts), a sequence of product ids.       *)
(***************************************************************************)
\* The keywords of the resolver.
kwFirst == << <<"f","i","r","s","t">>, <<"1","s","t">> >>

kwSecond == << <<"s","e","c","o","n","d">>, <<"2","n","d">> >>

kwThird == << <<"t","h","i","r","d">>, <<"3","r","d">> >>

kwLast == << <<"l","a","s","t">> >>

kwBoth == << <<"b","o","t","h">> >>

kwAll == << <<"a","l","l">> >>

kwGeneric == << <<"i","t">>, <<"t","h","i","s">>, <<"t","h","a","t">> >>

\* A rule of the resolver that applied, with the products it returns.
matched(products) == [matched |-> TRUE, products |-> products]

\* A rule of the resolver that did not apply.
noMatch == [matched |-> FALSE, products |-> <<>>]

\* A variant of mentionedProducts that compares the lower-cased query with
\* the names as the catalog spells them.
mentionedProductsAsSpelled(lowerQuery, availableProducts) ==
  SelectSeq(availableProducts,
            LAMBDA p : includes(lowerQuery, textOf(productById(p).name)))

\* Specific product mentions by name.
mentionedProducts(lowerQuery, availableProducts) ==
  SelectSeq(availableProducts,
            LAMBDA p : includes(lowerQuery, toLowerCase(textOf(productById(p).name))))

\* A variant of positionalReference that counts "second" and "third" from
\* zero.
positionalReferenceFromZero(lowerQuery, availableProducts) ==
  IF somePhraseIn(kwFirst, lowerQuery)
    THEN matched(slice(availableProducts, 0, 1))
  ELSE IF somePhraseIn(kwSecond, lowerQuery)
    THEN matched(slice(availableProducts, 2, 3))
  ELSE IF somePhraseIn(kwThird, lowerQuery)
    THEN matched(slice(availableProducts, 3, 4))
  ELSE IF somePhraseIn(kwLast, lowerQuery)
    THEN matched(sliceFrom(availableProducts, 0 - 1))
  ELSE noMatch

\* A variant of positionalReference that tests the keywords from "last" to
\* "first".
positionalReferenceLastFirst(lowerQuery, availableProducts) ==
  IF somePhraseIn(kwLast, lowerQuery)
    THEN matched(sliceFrom(availableProducts, -1))
  ELSE IF somePhraseIn(kwThird, lowerQuery)
    THEN matched(slice(availableProducts, 2, 3))
  ELSE IF somePhraseIn(kwSecond, lowerQuery)
    THEN matched(slice(availableProducts, 1, 2))
  ELSE IF somePhraseIn(kwFirst, lowerQuery)
    THEN matched(slice(availableProducts, 0, 1))
  ELSE noMatch

\* Positional references (first, second, third, last).
positionalReference(lowerQuery, availableProducts) ==
  IF somePhraseIn(kwFirst, lowerQuery)
    THEN matched(slice(availableProducts, 0, 1))
  ELSE IF somePhraseIn(kwSecond, lowerQuery)
    THEN matched(slice(availableProducts, 1, 2))
  ELSE IF somePhraseIn(kwThird, lowerQuery)
    THEN matched(slice(availableProducts, 2, 3))
  ELSE IF somePhraseIn(kwLast, lowerQuery)
    THEN matched(sliceFrom(availableProducts, -1))
  ELSE noMatch

\* A variant of collectiveReference whose "both" does not ask for two
\* products.
collectiveReferenceUnguarded(lowerQuery, availableProducts) ==
  IF somePhraseIn(kwBoth, lowerQuery)
    THEN matched(slice(availableProducts, 0, 2))
  ELSE IF somePhraseIn(kwAll, lowerQuery)
    THEN matched(availableProducts)
  ELSE noMatch

\* Collective references (both, all).
collectiveReference(lowerQuery, availableProducts) ==
  IF somePhraseIn(kwBoth, lowerQuery) /\ Len(availableProducts) >= 2
    THEN matched(slice(availableProducts, 0, 2))
  ELSE IF somePhraseIn(kwAll, lowerQuery)
    THEN matched(availableProducts)
  ELSE noMatch

\* Generic references (it, this, that): the first product, if there is one.
genericReference(lowerQuery, availableProducts) ==
  IF somePhraseIn(kwGeneric, lowerQuery)
    THEN matched(slice(availableProducts, 0, 1))
  ELSE noMatch

determineProductsFromContext(query, availableProducts) ==
  LET lowerQuery == toLowerCase(query)
      mentioned == mentionedProducts(lowerQuery, availableProducts)
      positional == positionalReference(lowerQuery, availableProducts)
      collective == collectiveReference(lowerQuery, availableProducts)
      generic == genericReference(lowerQuery, availableProducts)
  IN  IF Len(mentioned) > 0 THEN mentioned
      ELSE IF positional.matched THEN positional.products
      ELSE IF collective.matched THEN collective.products
      ELSE IF generic.matched THEN generic.products
      ELSE <<>>

(***************************************************************************)
(* parseCartAction: the action classifier.  action "none" stands for the   *)
(* null action, whose result carries no products.                          *)
(***************************************************************************)
isAddAction(query) == somePhraseIn(addPatterns, toLowerCase(query))

isRemoveAction(query) == somePhraseIn(removePatterns, toLowerCase(query))

\* A variant of parseCartAction that tests isRemoveAction first.
parseCartActionRemoveFirst(query, window) ==
  IF isRemoveAction(query)
    THEN [action |-> "remove",
          products |-> determineProductsFromContext(query, window)]
  ELSE IF isAddAction(query)
    THEN [action |-> "add",
          products |-> determineProductsFromContext(query, window)]
  ELSE [action |-> "none", products |-> <<>>]

\* parseCartAction(query, context), window the lastSuggestedProducts it
\* closes over.
parseCartAction(query, window) ==
  IF isAddAction(query)
    THEN [action |-> "add",
          products |-> determineProductsFromContext(query, window)]
  ELSE IF isRemoveAction(query)
    THEN [action |-> "remove",
          products |-> determineProductsFromContext(query, window)]
  ELSE [action |-> "none", products |-> <<>>]

(***************************************************************************)
(* findRelevantProducts: the relevance scorer                              *)
(***************************************************************************)
\* The score one catalog product accumulates for a lower-cased query.
scoreOf(product, lowerQuery) ==
  LET searchTerms == split(lowerQuery)
      name == toLowerCase(textOf(product.name))
      category == toLowerCase(textOf(product.category))
      description == toLowerCase(textOf(product.description))
      count(S) == Cardinality(S)
      termScore ==
          30 * count({i \in DOMAIN searchTerms : includes(name, searchTerms[i])})
        + 25 * count({i \in DOMAIN searchTerms : includes(category, searchTerms[i])})
        + 15 * count({i \in DOMAIN searchTerms : includes(description, searchTerms[i])})
        + 10 * count({<<i, f>> \in (DOMAIN searchTerms) \X (DOMAIN product.features) :
                       includes(toLowerCase(textOf(product.features[f])), searchTerms[i])})
      patternScore ==
          35 * count({ck \in UNION {{<<c, k>> : k \in DOMAIN patterns[c][2]} :
                                       c \in DOMAIN patterns} :
                       LET keyword == patterns[ck[1]][2][ck[2]]
                       IN  /\ includes(lowerQuery, keyword)
                           /\ \/ category = patterns[ck[1]][1]
                              \/ includes(name, keyword)
                              \/ includes(description, keyword)})
      shoeScore ==
        IF /\ includes(lowerQuery, <<"s","h","o","e">>) \/ includes(lowerQuery, <<"s","n","e","a","k","e","r">>)
           /\ includes(name, <<"s","n","e","a","k","e","r">>) \/ includes(name, <<"s","h","o","e">>)
          THEN 40 ELSE 0
      laptopScore ==
        IF /\ includes(lowerQuery, <<"l","a","p","t","o","p">>) \/ includes(lowerQuery, <<"c","o","m","p","u","t","e","r">>)
           /\ includes(name, <<"m","a","c","b","o","o","k">>) \/ includes(name, <<"l","a","p","t","o","p">>)
          THEN 40 ELSE 0
      phoneScore ==
        IF /\ includes(lowerQuery, <<"p","h","o","n","e">>)
           /\ includes(name, <<"i","p","h","o","n","e">>) \/ includes(name, <<"p","h","o","n","e">>)
          THEN 40 ELSE 0
      badgeScore ==
        IF product.badge = "Popular" \/ product.badge = "Bestseller" THEN 5 ELSE 0
  IN  termScore + patternScore + shoeScore + laptopScore + phoneScore + badgeScore

\* The relevance threshold of the filter.
Threshold == 25

\* The top-N cut of the result.
TopN == 3

RECURSIVE sortByScore(_, _)
\* Array.prototype.sort((a, b) => b.score - a.score): stable, highest first.
sortByScore(ids, lowerQuery) ==
  IF ids = <<>> THEN <<>>
  ELSE LET sc(i) == scoreOf(productById(ids[i]), lowerQuery)
           best == CHOOSE i \in DOMAIN ids :
                     /\ \A j \in DOMAIN ids : sc(j) <= sc(i)
                     /\ \A j \in 1..(i - 1) : sc(j) < sc(i)
       IN  <<ids[best]>> \o
           sortByScore(SubSeq(ids, 1, best - 1) \o SubSeq(ids, best + 1, Len(ids)),
                       lowerQuery)

\* A variant of findRelevantProducts that keeps every product with a
\* positive score.
findRelevantProductsAnyScore(query) ==
  LET lowerQuery == toLowerCase(query)
      scored == [i \in DOMAIN productsData |-> productsData[i].id]
      passing == SelectSeq(scored,
                   LAMBDA p : scoreOf(productById(p), lowerQuery) > 0)
  IN  slice(sortByScore(passing, lowerQuery), 0, TopN)

\* A variant of findRelevantProducts that cuts the list before sorting it.
findRelevantProductsCutFirst(query) ==
  LET lowerQuery == toLowerCase(query)
      scored == [i \in DOMAIN productsData |-> productsData[i].id]
      passing == SelectSeq(scored,
                   LAMBDA p : scoreOf(productById(p), lowerQuery) >= Threshold)
  IN  sortByScore(slice(passing, 0, TopN), lowerQuery)

findRelevantProducts(query) ==
  LET lowerQuery == toLowerCase(query)
      scored == [i \in DOMAIN productsData |-> productsData[i].id]
      passing == SelectSeq(scored,
                   LAMBDA p : scoreOf(productById(p), lowerQuery) >= Threshold)
  IN  slice(sortByScore(passing, lowerQuery), 0, TopN)

(***************************************************************************)
(* The cart store (CartContext): the reducer, over items = <<[id,          *)
(* quantity]>>.  A cart item is its product (by id) with a quantity.       *)
(***************************************************************************)
\* A variant of cartReducer whose UPDATE_QUANTITY removes the item for a
\* negative quantity only.
cartReducerKeepingZero(items, action) ==
  IF action.type = "ADD_ITEM"
    THEN IF \E i \in DOMAIN items : items[i].id = action.payload
           THEN [i \in DOMAIN items |->
                   IF items[i].id = action.payload
                     THEN [items[i] EXCEPT !.quantity = @ + 1]
                     ELSE items[i]]
           ELSE Append(items, [id |-> action.payload, quantity |-> 1])
  ELSE IF action.type = "REMOVE_ITEM"
    THEN SelectSeq(items, LAMBDA item : item.id # action.payload)
  ELSE IF action.type = "UPDATE_QUANTITY"
    THEN IF action.payload.quantity < 0
           THEN SelectSeq(items, LAMBDA item : item.id # action.payload.id)
           ELSE [i \in DOMAIN items |->
                   IF items[i].id = action.payload.id
                     THEN [items[i] EXCEPT !.quantity = action.payload.quantity]
                     ELSE items[i]]
  ELSE IF action.type = "CLEAR_CART"
    THEN <<>>
  ELSE IF action.type = "LOAD_CART"
    THEN action.payload
  ELSE items

\* A variant of cartReducer whose LOAD_CART keeps the state it had.
cartReducerNoLoad(items, action) ==
  IF action.type = "ADD_ITEM"
    THEN IF \E i \in DOMAIN items : items[i].id = action.payload
           THEN [i \in DOMAIN items |->
                   IF items[i].id = action.payload
                     THEN [items[i] EXCEPT !.quantity = @ + 1]
                     ELSE items[i]]
           ELSE Append(items, [id |-> action.payload, quantity |-> 1])
  ELSE IF action.type = "REMOVE_ITEM"
    THEN SelectSeq(items, LAMBDA item : item.id # action.payload)
  ELSE IF action.type = "UPDATE_QUANTITY"
    THEN IF action.payload.quantity <= 0
           THEN SelectSeq(items, LAMBDA item : item.id # action.payload.id)
           ELSE [i \in DOMAIN items |->
                   IF items[i].id = action.payload.id
                     THEN [items[i] EXCEPT !.quantity = action.payload.quantity]
                     ELSE items[i]]
  ELSE IF action.type = "CLEAR_CART"
    THEN <<>>
  ELSE items

cartReducer(items, action) ==
  IF action.type = "ADD_ITEM"
    THEN IF \E i \in DOMAIN items : items[i].id = action.payload
           THEN [i \in DOMAIN items |->
                   IF items[i].id = action.payload
                     THEN [items[i] EXCEPT !.quantity = @ + 1]
                     ELSE items[i]]
           ELSE Append(items, [id |-> action.payload, quantity |-> 1])
  ELSE IF action.type = "REMOVE_ITEM"
    THEN SelectSeq(items, LAMBDA item : item.id # action.payload)
  ELSE IF action.type = "UPDATE_QUANTITY"
    THEN IF action.payload.quantity <= 0
           THEN SelectSeq(items, LAMBDA item : item.id # action.payload.id)
           ELSE [i \in DOMAIN items |->
                   IF items[i].id = action.payload.id
                     THEN [items[i] EXCEPT !.quantity = action.payload.quantity]
                     ELSE items[i]]
  ELSE IF action.type = "CLEAR_CART"
    THEN <<>>
  ELSE IF action.type = "LOAD_CART"
    THEN action.payload
  ELSE items

RECURSIVE dispatchAll(_, _)
\* The dispatches of one handler, reduced in the order they were made.
dispatchAll(items, actions) ==
  IF actions = <<>> THEN items
  ELSE dispatchAll(cartReducer(items, Head(actions)), Tail(actions))

\* cart.addItem(product)
addItem(product) == [type |-> "ADD_ITEM", payload |-> product]

\* cart.removeItem(productId)
removeItem(productId) == [type |-> "REMOVE_ITEM", payload |-> productId]

\* cart.updateQuantity(productId, quantity)
updateQuantity(productId, quantity) ==
  [type |-> "UPDATE_QUANTITY", payload |-> [id |-> productId, quantity |-> quantity]]

\* cart.clearCart()
clearCart == [type |-> "CLEAR_CART", payload |-> 0]

\* JSON.stringify(state.items): the text of an array, one object per item,
\* each a list of keys and values.
stringify(cartItems) ==
  [kind |-> "array",
   text |-> [i \in DOMAIN cartItems |->
               <<"id", cartItems[i].id, "quantity", cartItems[i].quantity>>]]

\* JSON.parse of the text of an item array.
parse(stored) ==
  [i \in DOMAIN stored.text |->
     [id |-> stored.text[i][2], quantity |-> stored.text[i][4]]]

\* localStorage.getItem('cart') of a browser that never saved a cart.
noStored == [kind |-> "null", text |-> <<>>]

(***************************************************************************)
(* Messages.  The content of a message is a record: the text of a user     *)
(* query or of a provider's reply, or one of the assistant's fixed         *)
(* templates with the values it interpolates.                              *)
(***************************************************************************)
Content(kind, text, names, count) ==
  [kind |-> kind, text |-> text, names |-> names, count |-> count]

\* A Message; products <<>> stands for an absent products field.
Message(type, content, products, showProducts) ==
  [type |-> type, content |-> content,
   products |-> products, showProducts |-> showProducts]

\* "Hi! I'm your shopping assistant. ..."
greeting == Message("assistant", Content("greeting", <<>>, <<>>, 0), <<>>, FALSE)

\* "I'm having trouble connecting right now. Please try again later."
apology == Content("apology", <<>>, <<>>, 0)

\* "Sorry, I encountered an error. Please try again."
sorry == Content("sorry", <<>>, <<>>, 0)

\* "Perfect! I've added ${names} to your cart. You now have ${n} item(s) ..."
addedReply(names, n) == Content("added", <<>>, names, n)

\* "I've removed ${names} from your cart. You now have ${n} item(s) ..."
removedReply(names, n) == Content("removed", <<>>, names, n)

(***************************************************************************)
(* buildConversationContext: the context block, one record per line        *)
(***************************************************************************)
\* The number of recent messages the context block renders.
ContextWindow == 6

RECURSIVE contextLines(_)
contextLines(recentMessages) ==
  IF recentMessages = <<>> THEN <<>>
  ELSE LET msg == Head(recentMessages)
           own ==
             IF msg.type = "user"
               THEN << [tag |-> "User", content |-> msg.content, names |-> <<>>] >>
             ELSE IF msg.type = "assistant"
               THEN << [tag |-> "Assistant", content |-> msg.content, names |-> <<>>] >>
                    \o (IF Len(msg.products) > 0
                          THEN << [tag |-> "Suggested products", content |-> <<>>,
                                   names |-> namesOf(msg.products)] >>
                          ELSE <<>>)
             ELSE <<>>
       IN  own \o contextLines(Tail(recentMessages))

buildConversationContext(msgs, lastSuggested) ==
  LET recentMessages == sliceFrom(msgs, 0 - ContextWindow)
  IN  (IF Len(recentMessages) > 0
         THEN << [tag |-> "RECENT CONVERSATION", content |-> <<>>, names |-> <<>>] >>
              \o contextLines(recentMessages)
         ELSE <<>>)
      \o (IF Len(lastSuggested) > 0
            THEN << [tag |-> "LAST SUGGESTED PRODUCTS", content |-> <<>>,
                     names |-> namesOf(lastSuggested)] >>
            ELSE <<>>)

(***************************************************************************)
(* getSystemPrompt: the prompt, as the parts it interpolates               *)
(***************************************************************************)
\* The number of recent searches the prompt lists.
PromptSearches == 5

\* A variant of getSystemPrompt that embeds the catalog and the examples in
\* every prompt.
getSystemPromptWithCatalog(showProducts, context, cartItems, profile) ==
  [cart |-> [i \in DOMAIN cartItems |->
               <<cartItems[i].quantity, productById(cartItems[i].id).name>>],
   interests |-> profile.interests,
   searches |-> sliceFrom(profile.searches, 0 - PromptSearches),
   context |-> context,
   catalog |-> [i \in DOMAIN productsData |-> productsData[i].id],
   examples |-> TRUE]

getSystemPrompt(showProducts, context, cartItems, profile) ==
  [cart |-> [i \in DOMAIN cartItems |->
               <<cartItems[i].quantity, productById(cartItems[i].id).name>>],
   interests |-> profile.interests,
   searches |-> sliceFrom(profile.searches, 0 - PromptSearches),
   context |-> context,
   catalog |-> IF showProducts
                 THEN [i \in DOMAIN productsData |-> productsData[i].id]
                 ELSE <<>>,
   examples |-> showProducts]

(***************************************************************************)
(* Bounds and inputs of the model                                          *)
(***************************************************************************)
\* Messages of the turn history: the greeting, two per turn, one per click
\* on a button of a suggestion card.
MaxMessages == 5

\* setTimeout callbacks of handleQuickAction pending at one time.
MaxTimers == 1

qBooks == <<"Do", "you", "have", "any", "books?">>

qPhones == <<"What", "phones", "do", "you", "have?">>

qHello == <<"hello">>

qAddIt == <<"add", "it">>

qRemoveIt == <<"remove", "it">>

\* What the user types into the input field.
Queries == {qBooks, qPhones, qHello, qAddIt, qRemoveIt}

\* The queries of the quick-action buttons.
quickActions == <<qBooks, qPhones>>

\* The texts a provider returns.
ReplyTexts == {<<"Sure.">>}

(***************************************************************************)
(* State                                                                   *)
(***************************************************************************)
VARIABLES
  open,                   \* useState: the panel is shown
  input,                  \* useState: the text of the input field
  messages,               \* useState: the turn history
  isLoading,              \* useState: a turn is in flight
  lastSuggestedProducts,  \* useState: the referent window (product ids)
  userProfile,            \* useState: [searches, interests]
  items,                  \* CartState.items of the cart store
  turns,                  \* the accepted turns: the locals of each handleSend
  timers,                 \* pending setTimeout(() => handleSend(), 100) closures
  probe                   \* the last result of a function applied on its own

vars ==
  <<open, input, messages, isLoading, lastSuggestedProducts, userProfile,
    items, turns, timers, probe>>

\* What a render closes over: handleSend and generateResponse read these
\* values, not the state at the time they run.
CurrentRender ==
  [input |-> input, isLoading |-> isLoading, messages |-> messages,
   lastSuggestedProducts |-> lastSuggestedProducts, items |-> items,
   userProfile |-> userProfile]

\* No function has been applied on its own.
noProbe == [applied |-> FALSE, products |-> <<>>, action |-> "none"]

Init ==
  /\ open = FALSE
  /\ input = <<"">>
  /\ messages = <<>>
  /\ isLoading = FALSE
  /\ lastSuggestedProducts = <<>>
  /\ userProfile = [searches |-> <<>>, interests |-> <<>>]
  /\ items = <<>>
  /\ turns = <<>>
  /\ timers = <<>>
  /\ probe = noProbe

(***************************************************************************)
(* generateResponse                                                        *)
(***************************************************************************)
\* The bound of userProfile.searches.
MaxSearches == 10

\* The bound of userProfile.interests.
MaxInterests == 5

RECURSIVE unique(_)
\* [...new Set(list)]: the first occurrence of each element, in order.
unique(list) ==
  IF list = <<>> THEN <<>>
  ELSE LET rest == unique(SubSeq(list, 1, Len(list) - 1))
           last == list[Len(list)]
       IN  IF \E i \in DOMAIN rest : rest[i] = last THEN rest ELSE Append(rest, last)

\* A variant of withSearch that keeps the first ten searches.
withSearchKeepFirst(profile, query) ==
  [profile EXCEPT !.searches = slice(Append(@, query), 0, MaxSearches)]

\* setUserProfile(prev => ({...prev, searches: [...prev.searches, query].slice(-10)}))
withSearch(profile, query) ==
  [profile EXCEPT !.searches = sliceFrom(Append(@, query), 0 - MaxSearches)]

\* A variant of mergeInterests in which a category that is folded in again
\* moves to the end: the last occurrence of each element is the one kept.
mergeInterestsRefreshing(interests, categories) ==
  LET all == interests \o categories
      lastOnes == {i \in DOMAIN all : \A j \in DOMAIN all : j > i => all[j] # all[i]}
      keptLast == SelectSeq([i \in DOMAIN all |-> <<i, all[i]>>],
                            LAMBDA e : e[1] \in lastOnes)
  IN  sliceFrom([i \in DOMAIN keptLast |-> keptLast[i][2]], 0 - MaxInterests)

\* [...new Set([...prev.interests, ...categories])].slice(-5)
mergeInterests(interests, categories) ==
  sliceFrom(unique(interests \o categories), 0 - MaxInterests)

\* A variant of withInterests that folds in the names of the products
\* instead of their categories.
withInterestsOfNames(profile, products) ==
  [profile EXCEPT !.interests = mergeInterests(@, unique(namesOf(products)))]

\* setUserProfile(prev => ({...prev, interests: [...new Set([...prev.interests,
\* ...categories])].slice(-5)})), categories those of the products shown.
withInterests(profile, products) ==
  LET categories == unique([i \in DOMAIN products |-> productById(products[i]).category])
  IN  [profile EXCEPT !.interests = mergeInterests(@, categories)]

\* A variant of isCartTurn that takes the cart path for every query
\* classified add or remove, resolved or not.
isCartTurnUnresolved(cartAction) == cartAction.action # "none"

\* The test that sends a turn down the cart path: an action with products.
isCartTurn(cartAction) ==
  cartAction.action # "none" /\ Len(cartAction.products) > 0

\* A variant of cartCallOf that calls addItem in the remove loop too.
cartCallOfAdd(action, product) == addItem(product)

\* cart.addItem(product) or cart.removeItem(product.id) of one iteration.
cartCallOf(action, product) ==
  IF action = "add" THEN addItem(product) ELSE removeItem(product)

RECURSIVE cartLoopFrom(_, _, _, _)
\* The iterations i, i+1, ... of the for loop over cartAction.products,
\* each call in its own try/catch: the calls attempted, the calls that
\* returned, and the names pushed after them.  throws holds the positions
\* at which the call of the cart collaborator throws.
cartLoopFrom(action, products, throws, i) ==
  IF i > Len(products)
    THEN [attempted |-> <<>>, calls |-> <<>>, names |-> <<>>]
    ELSE LET rest == cartLoopFrom(action, products, throws, i + 1)
             call == cartCallOf(action, products[i])
         IN  IF i \in throws
               THEN [rest EXCEPT !.attempted = <<call>> \o @]
               ELSE [attempted |-> <<call>> \o rest.attempted,
                     calls |-> <<call>> \o rest.calls,
                     names |-> <<productById(products[i]).name>> \o rest.names]

\* A variant of cartLoop with one try/catch around the whole loop: the
\* first call that throws ends it.
cartLoopAborting(cartAction, throws) ==
  LET failing == {i \in DOMAIN cartAction.products : i \in throws}
      reached == IF failing = {} THEN cartAction.products
                 ELSE SubSeq(cartAction.products, 1,
                             CHOOSE i \in failing : \A j \in failing : i <= j)
  IN  cartLoopFrom(cartAction.action, reached, throws, 1)

\* The for loop of a cart turn.
cartLoop(cartAction, throws) ==
  cartLoopFrom(cartAction.action, cartAction.products, throws, 1)

\* The calls of CartProvider's addItem and removeItem are dispatches: none
\* throws.
noThrows == {}

\* The cart calls of a cart turn, in the order of the for loop.
cartCalls(cartAction) == cartLoop(cartAction, noThrows).calls

\* The confirmation generateResponse returns after the loop; cart.items is
\* the render's cart.
confirmation(action, names, cartItems) ==
  IF action = "add"
    THEN addedReply(names, Len(cartItems))
    ELSE removedReply(names, Len(cartItems))

\* The reply of a cart turn.
cartReply(cartAction, cartItems) ==
  confirmation(cartAction.action, cartLoop(cartAction, noThrows).names, cartItems)

\* askGemini(fullPrompt), fullPrompt the system prompt, "User: " and the query.
geminiCall(askingForProducts, context, query, c) ==
  [provider |-> "gemini",
   system |-> getSystemPrompt(askingForProducts, context, c.items, c.userProfile),
   user |-> query]

\* A variant of chainCall whose system message is the conversational
\* prompt, whatever the product-seeking flag.
chainCallConversational(askingForProducts, context, query, c) ==
  [provider |-> "anthropic",
   system |-> getSystemPrompt(FALSE, context, c.items, c.userProfile),
   user |-> query]

\* chain.invoke({input: query}) on the Anthropic chain whose system message
\* is getSystemPrompt(askingForProducts, context).
chainCall(askingForProducts, context, query, c) ==
  [provider |-> "anthropic",
   system |-> getSystemPrompt(askingForProducts, context, c.items, c.userProfile),
   user |-> query]

\* A variant of providerCalls that calls askGemini in a cart turn as well.
providerCallsAlways(cartTurn, firstCall) == << firstCall >>

\* The provider calls generateResponse has made when it returns or first
\* suspends: a cart turn returns before the try block that calls askGemini.
providerCalls(cartTurn, firstCall) ==
  IF cartTurn THEN <<>> ELSE << firstCall >>

\* A variant of nextSuggested that overwrites the list after every reply.
nextSuggestedAlways(showProducts, relevantProducts, lastSuggested) ==
  relevantProducts

\* A variant of nextSuggested that never records the products shown.
nextSuggestedNever(showProducts, relevantProducts, lastSuggested) ==
  lastSuggested

\* setLastSuggestedProducts(relevantProducts), made only when products are
\* shown.
nextSuggested(showProducts, relevantProducts, lastSuggested) ==
  IF showProducts THEN relevantProducts ELSE lastSuggested

\* relevantProducts: the scorer runs only for a product-seeking query.
relevantProductsOf(askingForProducts, query) ==
  IF askingForProducts THEN findRelevantProducts(query) ELSE <<>>

\* showProducts of a provider reply.
showProductsOf(askingForProducts, relevantProducts) ==
  askingForProducts /\ Len(relevantProducts) > 0

\* The synchronous part of generateResponse(query) under render c: the
\* locals of a turn up to its return (a cart turn) or its first await.
startTurn(query, c, via, userAt) ==
  LET context == buildConversationContext(c.messages, c.lastSuggestedProducts)
      cartAction == parseCartAction(textOf(query), c.lastSuggestedProducts)
      cart == isCartTurn(cartAction)
      askingForProducts ==
        IF cart THEN FALSE ELSE isAskingForProducts(textOf(query))
  IN  [query |-> query,
       via |-> via,
       render |-> [items |-> c.items, userProfile |-> c.userProfile,
                   lastSuggestedProducts |-> c.lastSuggestedProducts],
       context |-> context,
       cartAction |-> cartAction,
       cartCalls |-> IF cart THEN cartCalls(cartAction) ELSE <<>>,
       askingForProducts |-> askingForProducts,
       relevantProducts |->
         IF cart THEN <<>>
         ELSE relevantProductsOf(askingForProducts, textOf(query)),
       calls |-> providerCalls(cart,
                   geminiCall(askingForProducts, context, query, c)),
       geminiFailed |-> FALSE,
       chainFailed |-> FALSE,
       pc |-> IF cart THEN "done" ELSE "askGemini",
       userAt |-> userAt,
       replyAt |-> IF cart THEN userAt + 1 ELSE 0]

\* The bot message handleSend builds from what generateResponse returned.
botMessage(content, products, showProducts) ==
  Message("assistant", content, IF showProducts THEN products ELSE <<>>, showProducts)

(***************************************************************************)
(* handleSend                                                              *)
(***************************************************************************)
\* The replies the turns in flight will append.
pendingReplies == Cardinality({t \in DOMAIN turns : turns[t].pc # "done"})

\* The bound of the model: the history has room for n more messages beside
\* the replies it is waiting for.
historyRoom(n) == Len(messages) + pendingReplies + n <= MaxMessages

\* The guard of handleSend, read from the render it closes over.
sendRejected(c) == trim(textOf(c.input)) = <<>> \/ c.isLoading

\* handleSend() of render c, up to the first await that suspends it.  A cart
\* turn has none: generateResponse returns without awaiting a provider and
\* the rest of handleSend follows in the same task, before any other event.
handleSend(c, via) ==
  IF sendRejected(c)
    THEN UNCHANGED <<input, messages, isLoading, lastSuggestedProducts,
                     userProfile, items, turns>>
    ELSE LET userMessage == Message("user", Content("text", c.input, <<>>, 0),
                                    <<>>, FALSE)
             t == startTurn(c.input, c, via, Len(messages) + 1)
         IN  /\ historyRoom(2)
             /\ turns' = Append(turns, t)
             /\ input' = <<"">>
             /\ userProfile' = withSearch(userProfile, c.input)
             /\ items' = dispatchAll(items, t.cartCalls)
             /\ UNCHANGED lastSuggestedProducts
             /\ IF t.pc = "done"
                  THEN /\ messages' =
                            messages \o
                            << userMessage,
                               botMessage(cartReply(t.cartAction, c.items),
                                          <<>>, FALSE) >>
                       /\ isLoading' = FALSE
                  ELSE /\ messages' = Append(messages, userMessage)
                       /\ isLoading' = TRUE

\* The Enter key in the input field or the Send button: handleSend of the
\* current render.  The field and the button are disabled while loading.
Send ==
  /\ open
  /\ ~isLoading
  /\ handleSend(CurrentRender, "ui")
  /\ UNCHANGED <<open, timers, probe>>

\* onChange of the input field.
TypeInput ==
  /\ open
  /\ ~isLoading
  /\ \E q \in Queries : input' = q
  /\ UNCHANGED <<open, messages, isLoading, lastSuggestedProducts, userProfile,
                 items, turns, timers, probe>>

\* The assistant button and the close button; opening an empty panel
\* shows the greeting.
ToggleOpen ==
  /\ open' = ~open
  /\ messages' = IF ~open /\ Len(messages) = 0 THEN <<greeting>> ELSE messages
  /\ UNCHANGED <<input, isLoading, lastSuggestedProducts, userProfile,
                 items, turns, timers, probe>>

\* handleQuickAction(query): setInput(query), and handleSend of this render
\* 100 ms later.  The buttons are shown while the history has at most one
\* message.
handleQuickAction ==
  /\ open
  /\ Len(messages) <= 1
  /\ Len(timers) < MaxTimers
  /\ \E i \in DOMAIN quickActions : input' = quickActions[i]
  /\ timers' = Append(timers, CurrentRender)
  /\ UNCHANGED <<open, messages, isLoading, lastSuggestedProducts, userProfile,
                 items, turns, probe>>

\* A timer of handleQuickAction expires.
TimerFires ==
  /\ timers # <<>>
  /\ \E k \in DOMAIN timers :
       /\ handleSend(timers[k], "timer")
       /\ timers' = SubSeq(timers, 1, k - 1) \o SubSeq(timers, k + 1, Len(timers))
  /\ UNCHANGED <<open, probe>>

(***************************************************************************)
(* The provider calls of a turn in flight                                  *)
(***************************************************************************)
\* A variant of replyWith that drops the reply instead of appending it.
replyDropped(t, aiResponse) ==
  LET turn == turns[t]
      showProducts == showProductsOf(turn.askingForProducts, turn.relevantProducts)
  IN  /\ lastSuggestedProducts' =
           nextSuggested(showProducts, turn.relevantProducts, lastSuggestedProducts)
      /\ messages' = messages
      /\ userProfile' =
           IF showProducts /\ Len(turn.relevantProducts) > 0
             THEN withInterests(userProfile, turn.relevantProducts)
             ELSE userProfile
      /\ isLoading' = FALSE
      /\ turns' = [turns EXCEPT ![t].pc = "done", ![t].replyAt = Len(messages) + 1]

\* A variant of replyWith without the finally block: the reply is appended
\* and isLoading stays as it was.
replyLoading(t, aiResponse) ==
  LET turn == turns[t]
      showProducts == showProductsOf(turn.askingForProducts, turn.relevantProducts)
  IN  /\ lastSuggestedProducts' =
           nextSuggested(showProducts, turn.relevantProducts, lastSuggestedProducts)
      /\ messages' =
           Append(messages,
                  botMessage(Content("text", aiResponse, <<>>, 0),
                             turn.relevantProducts, showProducts))
      /\ userProfile' =
           IF showProducts /\ Len(turn.relevantProducts) > 0
             THEN withInterests(userProfile, turn.relevantProducts)
             ELSE userProfile
      /\ isLoading' = isLoading
      /\ turns' = [turns EXCEPT ![t].pc = "done", ![t].replyAt = Len(messages) + 1]

\* generateResponse returns a provider's reply and handleSend appends it.
replyWith(t, aiResponse) ==
  LET turn == turns[t]
      showProducts == showProductsOf(turn.askingForProducts, turn.relevantProducts)
  IN  /\ lastSuggestedProducts' =
           nextSuggested(showProducts, turn.relevantProducts, lastSuggestedProducts)
      /\ messages' =
           Append(messages,
                  botMessage(Content("text", aiResponse, <<>>, 0),
                             turn.relevantProducts, showProducts))
      /\ userProfile' =
           IF showProducts /\ Len(turn.relevantProducts) > 0
             THEN withInterests(userProfile, turn.relevantProducts)
             ELSE userProfile
      /\ isLoading' = FALSE
      /\ turns' = [turns EXCEPT ![t].pc = "done", ![t].replyAt = Len(messages) + 1]

\* askGemini resolves.
GeminiResolves ==
  /\ \E t \in DOMAIN turns :
       /\ turns[t].pc = "askGemini"
       /\ \E aiResponse \in ReplyTexts : replyWith(t, aiResponse)
  /\ UNCHANGED <<open, input, items, timers, probe>>

\* askGemini throws ("Failed to get response from Gemini"): the catch
\* builds the Anthropic chain and invokes it.
GeminiRejects ==
  /\ \E t \in DOMAIN turns :
       /\ turns[t].pc = "askGemini"
       /\ turns' =
            [turns EXCEPT
               ![t].pc = "chain",
               ![t].geminiFailed = TRUE,
               ![t].calls =
                 Append(@, chainCall(turns[t].askingForProducts, turns[t].context,
                                     turns[t].query, turns[t].render))]
  /\ UNCHANGED <<open, input, messages, isLoading, lastSuggestedProducts,
                 userProfile, items, timers, probe>>

\* chain.invoke resolves.
ChainResolves ==
  /\ \E t \in DOMAIN turns :
       /\ turns[t].pc = "chain"
       /\ \E aiResponse \in ReplyTexts : replyWith(t, aiResponse)
  /\ UNCHANGED <<open, input, items, timers, probe>>

\* The reply of a turn whose two provider calls failed: the outer catch of
\* generateResponse returns the apology as an ordinary result, and
\* handleSend appends it as it appends any reply.
failureMessage == botMessage(apology, <<>>, FALSE)

\* chain.invoke throws.
ChainRejects ==
  /\ \E t \in DOMAIN turns :
       /\ turns[t].pc = "chain"
       /\ messages' = Append(messages, failureMessage)
       /\ isLoading' = FALSE
       /\ turns' = [turns EXCEPT ![t].pc = "done", ![t].chainFailed = TRUE,
                                 ![t].replyAt = Len(messages) + 1]
  /\ UNCHANGED <<open, input, lastSuggestedProducts, userProfile, items,
                 timers, probe>>

(***************************************************************************)
(* The buttons of a suggestion card                                        *)
(***************************************************************************)
\* The bound of the model on the clicks on the buttons of a card: the
\* history has room for one more message, whatever replies are awaited.
cardRoom == Len(messages) < MaxMessages

\* The products of the cards the panel shows.
shownProducts ==
  UNION {{messages[i].products[k] : k \in DOMAIN messages[i].products} :
           i \in {j \in DOMAIN messages : messages[j].showProducts}}

\* handleAddToCart(product)
handleAddToCart ==
  /\ open
  /\ cardRoom
  /\ \E p \in shownProducts :
       /\ items' = cartReducer(items, addItem(p))
       /\ messages' =
            Append(messages,
                   Message("assistant",
                           Content("added for", <<>>, <<productById(p).name>>,
                                   productById(p).price),
                           <<>>, FALSE))
  /\ UNCHANGED <<open, input, isLoading, lastSuggestedProducts, userProfile,
                 turns, timers, probe>>

\* handleRemoveFromCart(productId); the button is shown for a product whose
\* name is the name of a cart item.
handleRemoveFromCart ==
  /\ open
  /\ cardRoom
  /\ \E p \in shownProducts :
       /\ \E i \in DOMAIN items :
            productById(items[i].id).name = productById(p).name
       /\ items' = cartReducer(items, removeItem(p))
       /\ messages' =
            Append(messages,
                   Message("assistant",
                           Content("removed one", <<>>, <<productById(p).name>>, 0),
                           <<>>, FALSE))
  /\ UNCHANGED <<open, input, isLoading, lastSuggestedProducts, userProfile,
                 turns, timers, probe>>

Next ==
  \/ ToggleOpen
  \/ TypeInput
  \/ Send
  \/ handleQuickAction
  \/ TimerFires
  \/ GeminiResolves
  \/ GeminiRejects
  \/ ChainResolves
  \/ ChainRejects
  \/ handleAddToCart
  \/ handleRemoveFromCart

Spec == Init /\ [][Next]_vars

\* The component with providers that answer: a pending askGemini resolves
\* or throws, and so does a pending chain.invoke.
SpecAnswered ==
  /\ Init
  /\ [][Next]_vars
  /\ WF_vars(GeminiResolves \/ GeminiRejects)
  /\ WF_vars(ChainResolves \/ ChainRejects)

(***************************************************************************)
(* The resolver and the classifier on their own: parseCartAction (and,     *)
(* whatever it answers, determineProductsFromContext) applied to a query   *)
(* in the input field against a window.                                    *)
(***************************************************************************)
\* Phrases of one probe query.
MaxPhrases == 2

\* The phrases the probe queries are made of.
ProbePhrases ==
  { <<"add">>, <<"remove">>, <<"it">>, <<"this">>, <<"with">>,
    <<"both">>, <<"all">>,
    <<"first">>, <<"1st">>, <<"second">>, <<"2nd">>, <<"third">>, <<"3rd">>,
    <<"last">>,
    <<"running", "sneakers">>, <<"The", "Art", "of", "Programming">>,
    <<"add", "it">>, <<"remove", "it">> }

RECURSIVE phrasesOf(_)
\* The queries made of exactly n phrases, a space between two phrases.
phrasesOf(n) ==
  IF n = 0 THEN {<<>>}
  ELSE {q \o p : q \in phrasesOf(n - 1), p \in ProbePhrases}

ProbeQueries == UNION {phrasesOf(n) : n \in 1..MaxPhrases}

RECURSIVE windowsOf(_)
\* The windows of n distinct catalog products.
windowsOf(n) ==
  IF n = 0 THEN {<<>>}
  ELSE UNION {{Append(w, p) : p \in ProductIds \ {w[i] : i \in DOMAIN w}} :
              w \in windowsOf(n - 1)}

\* A window holds at most the TopN products of one scorer result.
Windows == UNION {windowsOf(n) : n \in 0..TopN}

InitFunctions ==
  /\ open = FALSE
  /\ input \in ProbeQueries
  /\ messages = <<>>
  /\ isLoading = FALSE
  /\ lastSuggestedProducts \in Windows
  /\ userProfile = [searches |-> <<>>, interests |-> <<>>]
  /\ items = <<>>
  /\ turns = <<>>
  /\ timers = <<>>
  /\ probe = noProbe

\* parseCartAction(input) as generateResponse calls it, and the resolver's
\* answer for the same query and window.
Probe ==
  /\ ~probe.applied
  /\ probe' = [applied |-> TRUE,
               products |-> determineProductsFromContext(textOf(input),
                                                         lastSuggestedProducts),
               action |-> parseCartAction(textOf(input),
                                          lastSuggestedProducts).action]
  /\ UNCHANGED <<open, input, messages, isLoading, lastSuggestedProducts,
                 userProfile, items, turns, timers>>

NextFunctions == Probe

SpecFunctions == InitFunctions /\ [][NextFunctions]_vars

(***************************************************************************)
(* The relevance scorer on its own: findRelevantProducts applied to a      *)
(* query, and what the provider path of generateResponse and handleSend    *)
(* make of its result.                                                     *)
(***************************************************************************)
\* The words the scorer's queries are made of; "" is the piece a doubled,
\* leading or trailing space leaves.
ScorerWords ==
  { "", "books?", "shoes?", "phones", "hello", "guide", "design", "trade",
    "mesh", "Food", "Coffee", "sneakers", "A", "Web" }

\* The queries of at most MaxPhrases words that pass the guard of
\* handleSend.
ScorerQueries ==
  {q \in UNION {[1..n -> ScorerWords] : n \in 1..MaxPhrases} :
     trim(textOf(q)) # <<>>}

\* The scorer has not run.
noScore == [applied |-> FALSE, found |-> <<>>, message |-> <<>>, last |-> <<>>]

InitScorer ==
  /\ open = FALSE
  /\ input \in ScorerQueries
  /\ messages = <<>>
  /\ isLoading = FALSE
  /\ lastSuggestedProducts = <<>>
  /\ userProfile = [searches |-> <<>>, interests |-> <<>>]
  /\ items = <<>>
  /\ turns = <<>>
  /\ timers = <<>>
  /\ probe = noScore

\* findRelevantProducts(input), and the reply and the lastSuggestedProducts
\* of a turn that asks input and is answered by a provider.
ProbeScorer ==
  /\ ~probe.applied
  /\ LET askingForProducts == isAskingForProducts(textOf(input))
         relevantProducts == relevantProductsOf(askingForProducts, textOf(input))
         showProducts == showProductsOf(askingForProducts, relevantProducts)
     IN  \E aiResponse \in ReplyTexts :
           probe' = [applied |-> TRUE,
                     found |-> findRelevantProducts(textOf(input)),
                     message |-> << botMessage(Content("text", aiResponse, <<>>, 0),
                                               relevantProducts, showProducts) >>,
                     last |-> nextSuggested(showProducts, relevantProducts,
                                            lastSuggestedProducts)]
  /\ UNCHANGED <<open, input, messages, isLoading, lastSuggestedProducts,
                 userProfile, items, turns, timers>>

NextScorer == ProbeScorer

SpecScorer == InitScorer /\ [][NextScorer]_vars

(***************************************************************************)
(* The windows of userProfile on their own, over more turns than the       *)
(* component model holds and a catalog of six categories.                  *)
(***************************************************************************)
\* Turns of one session of the profile model.
MaxSends == 11

\* The queries of the profile model.
ProfileQueries == {qBooks, qHello}

\* The categories of the products a reply to the query shows: those
\* getCategoryIcon names, and one of its default branch.
shownCategories(query) ==
  IF query = qBooks
    THEN << <<"Books">>, <<"Fashion">>, <<"Food", "&", "Beverage">> >>
    ELSE << <<"Electronics">>, <<"Home", "&", "Garden">>, <<"Accessories">> >>

InitProfile ==
  /\ open = FALSE
  /\ input = <<"">>
  /\ messages = <<>>
  /\ isLoading = FALSE
  /\ lastSuggestedProducts = <<>>
  /\ userProfile = [searches |-> <<>>, interests |-> <<>>]
  /\ items = <<>>
  /\ turns = <<>>
  /\ timers = <<>>
  /\ probe = [sent |-> <<>>, pending |-> <<>>]

\* An accepted turn: generateResponse records the query.
ProfileSend ==
  /\ probe.pending = <<>>
  /\ Len(probe.sent) < MaxSends
  /\ \E query \in ProfileQueries :
       /\ userProfile' = withSearch(userProfile, query)
       /\ probe' = [sent |-> Append(probe.sent, query), pending |-> <<query>>]
  /\ UNCHANGED <<open, input, messages, isLoading, lastSuggestedProducts,
                 items, turns, timers>>

\* The reply of the turn shows products: handleSend folds their
\* categories into the interests.
ProfileReplyShown ==
  /\ probe.pending # <<>>
  /\ userProfile' =
       [userProfile EXCEPT
          !.interests = mergeInterests(@, shownCategories(probe.pending[1]))]
  /\ probe' = [probe EXCEPT !.pending = <<>>]
  /\ UNCHANGED <<open, input, messages, isLoading, lastSuggestedProducts,
                 items, turns, timers>>

\* The reply of the turn shows none (a cart turn, a conversational reply,
\* the apology).
ProfileReplyPlain ==
  /\ probe.pending # <<>>
  /\ probe' = [probe EXCEPT !.pending = <<>>]
  /\ UNCHANGED <<open, input, messages, isLoading, lastSuggestedProducts,
                 userProfile, items, turns, timers>>

NextProfile == ProfileSend \/ ProfileReplyShown \/ ProfileReplyPlain

SpecProfile == InitProfile /\ [][NextProfile]_vars

(***************************************************************************)
(* The prompts of one turn on their own: generateResponse applied to a     *)
(* query against a window, with the call of the fallback if a first call   *)
(* was made.                                                               *)
(***************************************************************************)
\* The phrases the prompt probe's queries are made of.
PromptPhrases ==
  { <<"add", "it">>, <<"remove", "it">>, <<"hello">>, <<"books?">>,
    <<"shoes?">>, qBooks }

RECURSIVE promptQueriesOf(_)
\* The queries made of exactly n phrases.
promptQueriesOf(n) ==
  IF n = 0 THEN {<<>>}
  ELSE {q \o p : q \in promptQueriesOf(n - 1), p \in PromptPhrases}

PromptQueries == UNION {promptQueriesOf(n) : n \in 1..MaxPhrases}

\* The windows of the prompt probe.
PromptWindows == { <<>>, <<1>>, <<3, 1>>, <<1, 2, 3>> }

\* No turn has been probed.
noPrompt == [applied |-> FALSE, turn |-> <<>>, calls |-> <<>>]

InitPrompt ==
  /\ open = FALSE
  /\ input \in PromptQueries
  /\ messages = <<>>
  /\ isLoading = FALSE
  /\ lastSuggestedProducts \in PromptWindows
  /\ userProfile = [searches |-> <<>>, interests |-> <<>>]
  /\ items = <<>>
  /\ turns = <<>>
  /\ timers = <<>>
  /\ probe = noPrompt

\* generateResponse(input) of the current render: the turn, and every
\* provider call it can make (askGemini, and the chain when askGemini
\* throws).
ProbePrompt ==
  /\ ~probe.applied
  /\ LET t == startTurn(input, CurrentRender, "ui", 1)
     IN  probe' = [applied |-> TRUE,
                   turn |-> <<t>>,
                   calls |-> IF t.calls = <<>> THEN <<>>
                             ELSE Append(t.calls,
                                         chainCall(t.askingForProducts, t.context,
                                                   t.query, t.render))]
  /\ UNCHANGED <<open, input, messages, isLoading, lastSuggestedProducts,
                 userProfile, items, turns, timers>>

NextPrompt == ProbePrompt

SpecPrompt == InitPrompt /\ [][NextPrompt]_vars

(***************************************************************************)
(* CartProvider on its own: the reducer state, the dispatches waiting for  *)
(* the next render, the two effects and the localStorage slot.  probe      *)
(* holds what is not the cart: the slot, the queue, the effect that is     *)
(* due, and the calls made so far.                                         *)
(***************************************************************************)
\* Calls of addItem, removeItem, updateQuantity and clearCart in a session.
MaxCalls == 2

\* The carts a slot may hold at session start.
StoredCarts ==
  { <<>>,
    << [id |-> 1, quantity |-> 1] >>,
    << [id |-> 3, quantity |-> 2], [id |-> 1, quantity |-> 1] >> }

\* The contents of the slot at session start: none, the text of an item
\* array, the text of a value that is no array, text that is no JSON.
StoredValues ==
  {noStored} \cup {stringify(C) : C \in StoredCarts}
    \cup {[kind |-> "object", text |-> <<>>], [kind |-> "invalid", text |-> <<>>]}

\* The calls of a session.
CartCallSet ==
  {addItem(p) : p \in {1, 3}} \cup {removeItem(p) : p \in {1, 3}}
    \cup {updateQuantity(p, q) : p \in {1}, q \in {0, 2}} \cup {clearCart}

InitCartStore ==
  /\ open = FALSE
  /\ input = <<"">>
  /\ messages = <<>>
  /\ isLoading = FALSE
  /\ lastSuggestedProducts = <<>>
  /\ userProfile = [searches |-> <<>>, interests |-> <<>>]
  /\ items = <<>>
  /\ turns = <<>>
  /\ timers = <<>>
  /\ \E stored \in StoredValues :
       probe = [mounted |-> FALSE, slot |-> stored, initial |-> stored,
                queue |-> <<>>, saveDue |-> FALSE, calls |-> <<>>, loads |-> 0]

\* The effects of the first commit, in the order they are declared: the
\* load effect reads the slot and dispatches LOAD_CART for an array; the
\* save effect writes the items of the first render.
CartMount ==
  /\ ~probe.mounted
  /\ LET load == probe.slot.kind = "array"
     IN  probe' = [probe EXCEPT
                     !.mounted = TRUE,
                     !.queue = IF load
                                 THEN << [type |-> "LOAD_CART",
                                          payload |-> parse(probe.slot)] >>
                                 ELSE <<>>,
                     !.loads = IF load THEN @ + 1 ELSE @,
                     !.slot = stringify(items)]
  /\ UNCHANGED <<open, input, messages, isLoading, lastSuggestedProducts,
                 userProfile, items, turns, timers>>

\* addItem, removeItem, updateQuantity or clearCart is called.
CartCall ==
  /\ probe.mounted
  /\ Len(probe.calls) < MaxCalls
  /\ \E call \in CartCallSet :
       probe' = [probe EXCEPT !.queue = Append(@, call),
                              !.calls = Append(@, call)]
  /\ UNCHANGED <<open, input, messages, isLoading, lastSuggestedProducts,
                 userProfile, items, turns, timers>>

\* The next render reduces the dispatches made since the last one; the
\* items are a new array, so the save effect is due.  A save effect still
\* due is run before the render.
CartRender ==
  /\ probe.queue # <<>>
  /\ ~probe.saveDue
  /\ items' = dispatchAll(items, probe.queue)
  /\ probe' = [probe EXCEPT !.queue = <<>>, !.saveDue = TRUE]
  /\ UNCHANGED <<open, input, messages, isLoading, lastSuggestedProducts,
                 userProfile, turns, timers>>

\* The save effect of the last commit.
CartSave ==
  /\ probe.saveDue
  /\ probe' = [probe EXCEPT !.slot = stringify(items), !.saveDue = FALSE]
  /\ UNCHANGED <<open, input, messages, isLoading, lastSuggestedProducts,
                 userProfile, items, turns, timers>>

NextCartStore == CartMount \/ CartCall \/ CartRender \/ CartSave

\* React runs the effects of a commit and renders the updates it holds.
SpecCartStore ==
  /\ InitCartStore
  /\ [][NextCartStore]_vars
  /\ WF_vars(CartMount)
  /\ WF_vars(CartRender)
  /\ WF_vars(CartSave)

(***************************************************************************)
(* The for loop of a cart turn on its own, against a cart collaborator     *)
(* (CartContextType) whose addItem or removeItem may throw.                *)
(***************************************************************************)
\* The cart commands of the probe.
CartQueries ==
  { <<"add", "it">>, <<"add", "all">>, <<"add", "both">>,
    <<"remove", "it">>, <<"remove", "it", "all">> }

\* The loop has not run.
noLoop == [attempted |-> <<>>, calls |-> <<>>, names |-> <<>>]

InitCartLoop ==
  /\ open = FALSE
  /\ input \in CartQueries
  /\ messages = <<>>
  /\ isLoading = FALSE
  /\ lastSuggestedProducts \in Windows
  /\ userProfile = [searches |-> <<>>, interests |-> <<>>]
  /\ items = <<>>
  /\ turns = <<>>
  /\ timers = <<>>
  /\ \E throws \in SUBSET (1..TopN) :
       probe = [applied |-> FALSE, throws |-> throws,
                cartAction |-> [action |-> "none", products |-> <<>>],
                loop |-> noLoop, confirmed |-> FALSE, reply |-> <<>>]

\* The cart path of generateResponse up to its return: parseCartAction, the
\* guard, the loop, and the confirmation if a name was pushed, as the
\* message handleSend builds from it.
ProbeCartLoop ==
  /\ ~probe.applied
  /\ LET cartAction == parseCartAction(textOf(input), lastSuggestedProducts)
         loop == IF isCartTurn(cartAction)
                   THEN cartLoop(cartAction, probe.throws) ELSE noLoop
     IN  probe' = [applied |-> TRUE, throws |-> probe.throws,
                   cartAction |-> cartAction, loop |-> loop,
                   confirmed |-> Len(loop.names) > 0,
                   reply |-> IF Len(loop.names) > 0
                               THEN << botMessage(confirmation(cartAction.action,
                                                               loop.names, items),
                                                  <<>>, FALSE) >>
                               ELSE <<>>]
  /\ UNCHANGED <<open, input, messages, isLoading, lastSuggestedProducts,
                 userProfile, items, turns, timers>>

NextCartLoop == ProbeCartLoop

SpecCartLoop == InitCartLoop /\ [][NextCartLoop]_vars


(***************************************************************************)
(* The interests of userProfile on their own: the fold handleSend makes    *)
(* after a reply that shows products, with the lists folded so far.        *)
(***************************************************************************)
\* Replies that show products in one session of the interests model.
MaxFolds == 4

\* The category lists of the products of a reply (at most three products,
\* so at most three categories), over the categories getCategoryIcon names
\* and one of its default branch.
FoldLists ==
  { << <<"Books">> >>,
    << <<"Fashion">> >>,
    << <<"Books">>, <<"Fashion">>, <<"Food", "&", "Beverage">> >>,
    << <<"Electronics">>, <<"Home", "&", "Garden">>, <<"Accessories">> >>,
    << <<"Electronics">> >>,
    << <<"Accessories">>, <<"Books">> >> }

InitInterests ==
  /\ open = FALSE
  /\ input = <<"">>
  /\ messages = <<>>
  /\ isLoading = FALSE
  /\ lastSuggestedProducts = <<>>
  /\ userProfile = [searches |-> <<>>, interests |-> <<>>]
  /\ items = <<>>
  /\ turns = <<>>
  /\ timers = <<>>
  /\ probe = [folded |-> <<>>]

\* The update of the interests after a reply whose products have the
\* categories of the list.
InterestsFold ==
  /\ Len(probe.folded) < MaxFolds
  /\ \E categories \in FoldLists :
       /\ userProfile' =
            [userProfile EXCEPT !.interests = mergeInterests(@, categories)]
       /\ probe' = [folded |-> Append(probe.folded, categories)]
  /\ UNCHANGED <<open, input, messages, isLoading, lastSuggestedProducts,
                 items, turns, timers>>

NextInterests == InterestsFold

SpecInterests == InitInterests /\ [][NextInterests]_vars


(***************************************************************************)
(* The cart reducer on its own: the calls of addItem, removeItem,          *)
(* updateQuantity and clearCart, each reduced when it is made, from the    *)
(* empty cart of useReducer.                                               *)
(***************************************************************************)
\* Calls of one session of the reducer model.
MaxCartOps == 4

\* The calls: the products of two cards, and the quantities the buttons of
\* the cart pass (one less and one more than a quantity held) with one
\* below zero.
CartOps ==
  {addItem(p) : p \in {1, 3}} \cup {removeItem(p) : p \in {1, 3}}
    \cup {updateQuantity(p, q) : p \in {1, 3}, q \in {0 - 1, 0, 1, 2, 3}}
    \cup {clearCart}

InitCart ==
  /\ open = FALSE
  /\ input = <<"">>
  /\ messages = <<>>
  /\ isLoading = FALSE
  /\ lastSuggestedProducts = <<>>
  /\ userProfile = [searches |-> <<>>, interests |-> <<>>]
  /\ items = <<>>
  /\ turns = <<>>
  /\ timers = <<>>
  /\ probe = [made |-> 0, call |-> clearCart]

\* dispatch(action) of one call, and the render that reduces it.
CartDispatch ==
  /\ probe.made < MaxCartOps
  /\ \E call \in CartOps :
       /\ items' = cartReducer(items, call)
       /\ probe' = [made |-> probe.made + 1, call |-> call]
  /\ UNCHANGED <<open, input, messages, isLoading, lastSuggestedProducts,
                 userProfile, turns, timers>>

NextCart == CartDispatch

SpecCart == InitCart /\ [][NextCart]_vars


(***************************************************************************)
(* Properties of the cart path and of the provider calls                   *)
(***************************************************************************)
\* The turns that have appended their reply.
doneTurns == {t \in DOMAIN turns : turns[t].pc = "done"}

\* C1, as stated: in every turn whose query the Action Classifier classifies
\* as add or remove, no language-model provider is invoked, whatever the
\* contents of LastSuggestedProducts and of the cart.
C1_NoProviderOnAddOrRemove ==
  \A t \in DOMAIN turns :
    turns[t].cartAction.action \in {"add", "remove"} => turns[t].calls = <<>>

\* C1, amended: in every turn whose query is classified as add or remove AND
\* whose referents resolve to at least one product of LastSuggestedProducts,
\* no language-model provider is invoked; the turn is answered in the step
\* that accepted it.
C1_NoProviderOnCartMutation ==
  \A t \in DOMAIN turns :
    (/\ turns[t].cartAction.action \in {"add", "remove"}
     /\ turns[t].cartAction.products # <<>>)
      => /\ turns[t].calls = <<>>
         /\ turns[t].pc = "done"
         /\ ~turns[t].geminiFailed
         /\ ~turns[t].chainFailed

\* C1 happens: an add turn that resolved a product has replied, and called
\* no provider.
C1_Witness ==
  \E t \in DOMAIN turns :
    /\ turns[t].cartAction.action = "add"
    /\ turns[t].cartAction.products # <<>>
    /\ turns[t].calls = <<>>
    /\ messages[turns[t].replyAt].content.kind = "added"

\* C2: within one turn the primary provider is invoked exactly once, the
\* secondary exactly once if the primary call failed and never otherwise, so
\* a turn makes at most two calls; both calls carry the prompt of the same
\* product-seeking flag and the same context block, and the same user query.
C2_OneFallbackHop ==
  \A t \in DOMAIN turns :
    ~isCartTurn(turns[t].cartAction) =>
      LET turn == turns[t]
          prompt == getSystemPrompt(turn.askingForProducts, turn.context,
                                    turn.render.items, turn.render.userProfile)
      IN  /\ Len(turn.calls) \in {1, 2}
          /\ turn.calls[1] = [provider |-> "gemini", system |-> prompt,
                              user |-> turn.query]
          /\ (Len(turn.calls) = 2) = turn.geminiFailed
          /\ turn.pc = "askGemini" => ~turn.geminiFailed
          /\ turn.pc = "chain" => turn.geminiFailed
          /\ turn.chainFailed => turn.geminiFailed /\ turn.pc = "done"
          /\ turn.geminiFailed =>
               turn.calls[2] = [provider |-> "anthropic", system |-> prompt,
                                user |-> turn.query]

\* C2 happens: a product-seeking turn whose primary call failed was answered
\* by the secondary provider.
C2_Witness ==
  \E t \in doneTurns :
    /\ turns[t].geminiFailed
    /\ ~turns[t].chainFailed
    /\ turns[t].askingForProducts
    /\ Len(turns[t].calls) = 2

\* C3: when both the primary and the secondary provider call fail in a turn,
\* the turn appends a message whose type is error (not assistant) carrying
\* the fixed apology text.
C3_ErrorTurnOnDoubleFailure ==
  \A t \in doneTurns :
    (turns[t].geminiFailed /\ turns[t].chainFailed)
      => /\ messages[turns[t].replyAt].type = "error"
         /\ messages[turns[t].replyAt].content = apology

(***************************************************************************)
(* Properties of lastSuggestedProducts                                     *)
(***************************************************************************)
\* Turn t appends its reply in this step.
finishes(t) ==
  /\ t \in DOMAIN turns'
  /\ turns'[t].pc = "done"
  /\ t \in DOMAIN turns => turns[t].pc # "done"

\* C4: a turn that attaches no suggestions (a conversational reply, a cart
\* turn, a product-seeking turn whose scorer result is empty, a turn whose
\* two provider calls failed) leaves lastSuggestedProducts exactly as it
\* was, so that "add it" asked next resolves to the first product of the
\* list an earlier turn suggested.
C4_Retained ==
  [][\A t \in DOMAIN turns' :
       (finishes(t) /\ messages'[turns'[t].replyAt].products = <<>>)
         => /\ lastSuggestedProducts' = lastSuggestedProducts
            /\ lastSuggestedProducts # <<>> =>
                 parseCartAction(textOf(qAddIt), lastSuggestedProducts')
                   = [action |-> "add",
                      products |-> <<lastSuggestedProducts[1]>>]]_vars

\* C4 happens: a turn suggested products, a later turn replied without any,
\* and lastSuggestedProducts is still the list of the earlier turn.
C4_Witness ==
  \E t1, t2 \in doneTurns :
    /\ turns[t1].replyAt < turns[t2].userAt
    /\ messages[turns[t1].replyAt].products # <<>>
    /\ messages[turns[t2].replyAt].products = <<>>
    /\ lastSuggestedProducts = messages[turns[t1].replyAt].products

\* The assistant messages that carry suggestions.
suggesting ==
  {i \in DOMAIN messages :
     messages[i].type = "assistant" /\ messages[i].products # <<>>}

\* The most recent of them.
latest == CHOOSE i \in suggesting : \A j \in suggesting : j <= i

lowerInput == toLowerCase(textOf(input))

\* The query contains the name of product p, letter case apart.
names(p) == includes(lowerInput, toLowerCase(textOf(productById(p).name)))

\* No product of the window is named.
noneNamed == \A i \in DOMAIN lastSuggestedProducts : ~names(lastSuggestedProducts[i])

\* The query contains the word.
has(word) == includes(lowerInput, chars[word])

\* The ordinal positions the query asks for; 0 stands for "last".
ordinals ==
  {k \in 0..3 :
     \/ k = 1 /\ (has("first") \/ has("1st"))
     \/ k = 2 /\ (has("second") \/ has("2nd"))
     \/ k = 3 /\ (has("third") \/ has("3rd"))
     \/ k = 0 /\ has("last")}

\* The product at an ordinal position of the window, none if the window has
\* no such position.
atPosition(k) ==
  LET i == IF k = 0 THEN Len(lastSuggestedProducts) ELSE k
  IN  IF i \in DOMAIN lastSuggestedProducts
        THEN <<lastSuggestedProducts[i]>> ELSE <<>>

\* C6: if the lower-cased query contains the lower-cased name of at least
\* one window product, determineProductsFromContext returns exactly the
\* window products whose name the query contains, in window order, whatever
\* ordinal, collective or pronoun keyword the query also contains.
C6_NameMatchFirst ==
  (probe.applied /\ ~noneNamed) =>
    probe.products = SelectSeq(lastSuggestedProducts, names)

\* C6 happens: the query names a product that is not the first of the
\* window and holds an ordinal or a pronoun as well.
C6_Witness ==
  /\ probe.applied
  /\ ~noneNamed
  /\ ordinals # {} \/ has("it")
  /\ Len(lastSuggestedProducts) > 1
  /\ probe.products = <<lastSuggestedProducts[2]>>

\* C7: when no window product is named and the query contains an ordinal
\* keyword, determineProductsFromContext returns the single product at that
\* position of the window (1, 2, 3, or the final element for "last"), the
\* empty sequence when the window has no element there, and never more than
\* one element, even if the query also contains "both", "all" or a pronoun.
C7_Ordinal ==
  (probe.applied /\ noneNamed /\ ordinals # {}) =>
    /\ \E k \in ordinals : probe.products = atPosition(k)
    /\ Len(probe.products) <= 1

\* C7 happens: "second" beside "both", "all" or a pronoun, against a window
\* of two or more, returns the second product alone.
C7_Witness ==
  /\ probe.applied
  /\ noneNamed
  /\ ordinals = {2}
  /\ has("both") \/ has("all") \/ has("it")
  /\ Len(lastSuggestedProducts) >= 2
  /\ probe.products = <<lastSuggestedProducts[2]>>

\* C8: when no window product is named and the query has no ordinal
\* keyword: "both" returns the first two window elements provided the window
\* has at least two; otherwise "all" returns the entire window in order;
\* otherwise "it", "this" or "that" returns only the first element;
\* otherwise the result is empty.  Against an empty window the result is
\* always empty.
C8_CollectiveAndPronoun ==
  probe.applied =>
    /\ (noneNamed /\ ordinals = {}) =>
         probe.products =
           IF has("both") /\ Len(lastSuggestedProducts) >= 2
             THEN SubSeq(lastSuggestedProducts, 1, 2)
           ELSE IF has("all")
             THEN lastSuggestedProducts
           ELSE IF has("it") \/ has("this") \/ has("that")
             THEN SubSeq(lastSuggestedProducts, 1,
                         Min(1, Len(lastSuggestedProducts)))
           ELSE <<>>
    /\ lastSuggestedProducts = <<>> => probe.products = <<>>

\* C8 happens: "both" beside "all" against a window of three returns the
\* first two products.
C8_Witness ==
  /\ probe.applied
  /\ noneNamed
  /\ ordinals = {}
  /\ has("both")
  /\ has("all")
  /\ Len(lastSuggestedProducts) = 3
  /\ probe.products = SubSeq(lastSuggestedProducts, 1, 2)

\* C9: parseCartAction returns exactly one of add, remove or none: add
\* whenever the query contains any add-phrase (even if it also contains a
\* remove-phrase), remove only when it contains a remove-phrase and no
\* add-phrase, none when it contains neither.
C9_AddWinsTie ==
  probe.applied =>
    LET adds == \E i \in DOMAIN addPatterns : includes(lowerInput, addPatterns[i])
        removes ==
          \E i \in DOMAIN removePatterns : includes(lowerInput, removePatterns[i])
    IN  /\ probe.action \in {"add", "remove", "none"}
        /\ adds => probe.action = "add"
        /\ (probe.action = "remove") = (removes /\ ~adds)
        /\ (probe.action = "none") = (~adds /\ ~removes)

\* C9 happens: a query that holds an add-phrase after a remove-phrase is
\* classified as add.
C9_Witness ==
  /\ probe.applied
  /\ includes(lowerInput, chars["remove"] \o <<" ">> \o chars["it"])
  /\ includes(lowerInput, chars["add"] \o <<" ">> \o chars["it"])
  /\ probe.action = "add"

(***************************************************************************)
(* One user message and one reply per accepted turn                        *)
(***************************************************************************)
\* The content kinds of the replies handleSend appends.
replyKinds == {"text", "added", "removed", "apology"}

\* The messages that are replies of turns.
replies ==
  {i \in DOMAIN messages :
     messages[i].type # "user" /\ messages[i].content.kind \in replyKinds}

\* C10: every accepted turn appends exactly one user message and then
\* exactly one reply of type assistant or error, on every path: cart
\* mutation, reply of the primary provider, reply of the secondary provider,
\* failure of both.  (A turn still waiting for a provider has no reply yet.)
C10_OneUserOneReply ==
  /\ Cardinality({i \in DOMAIN messages : messages[i].type = "user"}) = Len(turns)
  /\ Cardinality(replies) = Cardinality(doneTurns)
  /\ \A t \in DOMAIN turns :
       /\ turns[t].userAt \in DOMAIN messages
       /\ messages[turns[t].userAt] =
            Message("user", Content("text", turns[t].query, <<>>, 0), <<>>, FALSE)
       /\ t \notin doneTurns => turns[t].replyAt = 0
       /\ t \in doneTurns =>
            /\ turns[t].replyAt \in replies
            /\ turns[t].replyAt > turns[t].userAt
            /\ messages[turns[t].replyAt].type \in {"assistant", "error"}
  /\ \A t, u \in DOMAIN turns :
       t # u => /\ turns[t].userAt # turns[u].userAt
                /\ (t \in doneTurns /\ u \in doneTurns)
                     => turns[t].replyAt # turns[u].replyAt

\* C10 happens: a turn answered by the secondary provider and a cart turn
\* have each one user message and one reply.
C10_Witness ==
  \E t, u \in doneTurns :
    /\ turns[t].geminiFailed
    /\ ~turns[t].chainFailed
    /\ isCartTurn(turns[u].cartAction)
    /\ Cardinality(replies) = 2
    /\ Len(messages) = 5

(***************************************************************************)
(* One turn at a time                                                      *)
(***************************************************************************)
\* The turns whose generateResponse has not completed.
inFlight == {t \in DOMAIN turns : turns[t].pc # "done"}

\* C11: at most one turn is in flight at any time: while generateResponse
\* of a turn has not completed, a further handleSend (Enter, the Send button,
\* the delayed call of handleQuickAction) is rejected without appending a
\* message, changing userProfile or calling a provider.
C11_OneTurnInFlight ==
  [][(inFlight # {}) =>
       /\ inFlight' \subseteq inFlight
       /\ Len(turns') = Len(turns)
       /\ \A i \in DOMAIN messages' \ DOMAIN messages : messages'[i].type # "user"
       /\ userProfile'.searches = userProfile.searches]_vars

(***************************************************************************)
(* The cart turn                                                           *)
(***************************************************************************)
\* C12: the confirmation reply of an add or remove turn reports the
\* resulting cart size: the number it states is the number of items in the
\* cart after all addItem/removeItem calls of the turn have been applied by
\* the cart reducer.
C12_ConfirmationReportsResultingSize ==
  [][\A t \in DOMAIN turns' :
       (finishes(t) /\ isCartTurn(turns'[t].cartAction))
         => messages'[turns'[t].replyAt].content.count = Len(items')]_vars

\* The products of the probed cart turn at the positions whose call
\* returned.
returned ==
  LET products == probe.cartAction.products
      F[i \in 0..Len(products)] ==
        IF i = 0 THEN <<>>
        ELSE IF i \in probe.throws THEN F[i - 1]
        ELSE Append(F[i - 1], products[i])
  IN  F[Len(products)]

\* C13: in a cart turn each resolved product is applied independently: a
\* call of addItem/removeItem that throws does not prevent the calls for
\* the remaining resolved products, and the confirmation names exactly the
\* products whose call did not fail, in resolution order.
C13_AppliedIndependently ==
  (probe.applied /\ probe.cartAction.products # <<>>) =>
    LET products == probe.cartAction.products
    IN  /\ probe.loop.attempted =
             [i \in DOMAIN products |-> cartCallOf(probe.cartAction.action, products[i])]
        /\ probe.loop.calls =
             [i \in DOMAIN returned |-> cartCallOf(probe.cartAction.action, returned[i])]
        /\ probe.loop.names = namesOf(returned)
        /\ probe.confirmed = (returned # <<>>)

\* C13 happens: of three products the call for the second throws, the first
\* and the third are applied and named.
C13_Witness ==
  /\ probe.applied
  /\ Len(probe.cartAction.products) = 3
  /\ probe.throws = {2}
  /\ probe.confirmed
  /\ probe.loop.names = namesOf(<<probe.cartAction.products[1],
                                  probe.cartAction.products[3]>>)

\* Turn t is accepted in this step.
accepted(t) == t \in DOMAIN turns' /\ t \notin DOMAIN turns

\* C14: when a query is classified add or remove but the Referent Resolver
\* returns the empty sequence, the turn invokes neither addItem nor
\* removeItem (the cart is unchanged by the turn), raises no error, and
\* still ends with a reply: the reply of the provider path, not the
\* confirmation of a mutation.
C14_NoReferentNoMutation ==
  [][\A t \in DOMAIN turns' :
       (/\ turns'[t].cartAction.action \in {"add", "remove"}
        /\ turns'[t].cartAction.products = <<>>)
         => /\ turns'[t].cartCalls = <<>>
            /\ (accepted(t) \/ finishes(t)) => items' = items
            /\ turns'[t].pc = "done" =>
                 /\ turns'[t].replyAt \in DOMAIN messages'
                 /\ turns'[t].replyAt > turns'[t].userAt
                 /\ messages'[turns'[t].replyAt].type = "assistant"
                 /\ messages'[turns'[t].replyAt].content.kind \in {"text", "apology"}]_vars

\* C14 happens: "add it" with nothing suggested has been answered by a
\* provider, and the cart is empty.
C14_Witness ==
  \E t \in doneTurns :
    /\ turns[t].cartAction = [action |-> "add", products |-> <<>>]
    /\ messages[turns[t].replyAt].content.kind = "text"
    /\ items = <<>>

\* C15: in an add (resp. remove) turn whose resolved list R is non-empty,
\* addItem (resp. removeItem) is invoked exactly once for each product of R,
\* in resolution order, and for no other product; the assistant message of
\* the turn carries no attached suggestions.
C15_OneCallPerResolvedProduct ==
  (/\ probe.applied
   /\ probe.cartAction.products # <<>>
   /\ probe.throws \cap DOMAIN probe.cartAction.products = {})
    => LET R == probe.cartAction.products
           type == IF probe.cartAction.action = "add"
                     THEN "ADD_ITEM" ELSE "REMOVE_ITEM"
       IN  /\ probe.cartAction.action \in {"add", "remove"}
           /\ Len(probe.loop.attempted) = Len(R)
           /\ \A i \in DOMAIN R :
                probe.loop.attempted[i] = [type |-> type, payload |-> R[i]]
           /\ probe.loop.calls = probe.loop.attempted
           /\ Len(probe.reply) = 1
           /\ probe.reply[1].type = "assistant"
           /\ probe.reply[1].products = <<>>
           /\ ~probe.reply[1].showProducts

\* C15 happens: a remove turn that resolved three products has called
\* removeItem for the three and replied.
C15_Witness ==
  /\ probe.applied
  /\ probe.cartAction.action = "remove"
  /\ Len(probe.cartAction.products) = 3
  /\ probe.throws = {}
  /\ Len(probe.loop.calls) = 3
  /\ probe.reply # <<>>

(***************************************************************************)
(* Properties of findRelevantProducts                                      *)
(***************************************************************************)
\* The accumulated score of product p for the probed query.
score(p) == scoreOf(productById(p), toLowerCase(textOf(input)))

\* The elements of a sequence.
elements(seq) == {seq[i] : i \in DOMAIN seq}

\* The products the probe's outputs hold: the scorer's result, the
\* suggestions attached to the reply, lastSuggestedProducts after it.
suggested ==
  elements(probe.found) \cup elements(probe.message[1].products)
    \cup elements(probe.last)

\* C16: every product returned by findRelevantProducts has an accumulated
\* score of at least the threshold (25); a product whose score is below it
\* never appears in the result, in the suggestions attached to a message, or
\* in lastSuggestedProducts.
C16_ThresholdFilter ==
  probe.applied =>
    /\ \A p \in suggested : p \in ProductIds /\ score(p) >= 25
    /\ \A p \in ProductIds : score(p) < 25 => p \notin suggested

\* C16 happens: a product-seeking query gives one product a positive score
\* below the threshold and another a passing one; only the second is
\* suggested.
C16_Witness ==
  /\ probe.applied
  /\ \E p \in ProductIds : score(p) > 0 /\ score(p) < 25
  /\ probe.message[1].products # <<>>
  /\ probe.last = probe.found

\* The position of product p in the catalog.
catalogIndex(p) == CHOOSE i \in DOMAIN productsData : productsData[i].id = p

\* Product p comes before product q: higher score, or equal score and
\* earlier in the catalog.
before(p, q) ==
  \/ score(p) > score(q)
  \/ score(p) = score(q) /\ catalogIndex(p) < catalogIndex(q)

\* C17: the result of findRelevantProducts is ordered by non-increasing
\* score, products of equal score in catalog order, holds at most 3
\* products, and is exactly the first 3 of the threshold-passing products
\* under that ordering.
C17_TopThreeByScore ==
  probe.applied =>
    LET found == probe.found
        passing == {p \in ProductIds : score(p) >= 25}
    IN  /\ Len(found) <= 3
        /\ elements(found) \subseteq passing
        /\ \A i, j \in DOMAIN found : i < j => before(found[i], found[j])
        /\ Len(found) = Min(3, Cardinality(passing))
        /\ \A p \in passing \ elements(found) :
             \A i \in DOMAIN found : before(found[i], p)

\* C17 happens: four products pass, two of the first three tie, and the
\* fourth is cut.
C17_Witness ==
  /\ probe.applied
  /\ Cardinality({p \in ProductIds : score(p) >= 25}) = 4
  /\ Len(probe.found) = 3
  /\ \E i \in 1..2 : score(probe.found[i]) = score(probe.found[i + 1])
  /\ \E i \in 1..2 : score(probe.found[i]) > score(probe.found[i + 1])

(***************************************************************************)
(* Properties of userProfile                                               *)
(***************************************************************************)
\* C18: after any sequence of accepted turns, userProfile.searches has at
\* most 10 entries and is exactly the last min(n, 10) user queries in the
\* order they were sent (whatever reply each turn got; the oldest entry is
\* evicted first), and userProfile.interests has at most 5 entries with no
\* duplicates.
C18_ProfileWindows ==
  LET n == Len(probe.sent)
      searches == userProfile.searches
      interests == userProfile.interests
  IN  /\ Len(searches) = Min(n, 10)
      /\ \A i \in DOMAIN searches : searches[i] = probe.sent[n - Len(searches) + i]
      /\ Len(interests) <= 5
      /\ \A i, j \in DOMAIN interests : i # j => interests[i] # interests[j]

\* C18 happens: the eleventh query evicted the first, which differs from
\* the second, and a sixth category evicted the oldest interest.
C18_Witness ==
  /\ Len(probe.sent) = 11
  /\ probe.sent[1] # probe.sent[2]
  /\ Len(userProfile.searches) = 10
  /\ userProfile.searches[1] = probe.sent[2]
  /\ Len(userProfile.interests) = 5
  /\ \A i \in DOMAIN userProfile.interests : userProfile.interests[i] # <<"Books">>
  /\ qBooks \in {probe.sent[i] : i \in DOMAIN probe.sent}

(***************************************************************************)
(* Properties of the prompts                                               *)
(***************************************************************************)
\* The call's prompt holds the catalog dump or the few-shot examples.
withCatalog(call) == call.system.catalog # <<>> \/ call.system.examples

\* C19, as stated: the catalog dump (and the few-shot examples) is embedded
\* in a prompt sent to a provider only in turns where the Action Classifier
\* yields none and the product-seeking heuristic is true; no prompt built in
\* a turn classified add or remove contains the catalog dump.
C19_CatalogOnlyWhenUnclassified ==
  probe.applied =>
    \A i \in DOMAIN probe.calls :
      withCatalog(probe.calls[i]) =>
        /\ probe.turn[1].cartAction.action = "none"
        /\ isAskingForProducts(textOf(input))

\* C19, amended: the catalog dump and the examples are embedded in a prompt
\* exactly when the turn takes the provider path (the classifier yields
\* none, or yields add or remove with an empty resolved list) and the
\* product-seeking heuristic is true; a turn classified add or remove that
\* resolved a product builds no prompt at all.
C19_CatalogOnlyWhenProductSeeking ==
  probe.applied =>
    LET cartAction == probe.turn[1].cartAction
        mutation == cartAction.action \in {"add", "remove"} /\ cartAction.products # <<>>
    IN  /\ mutation => probe.calls = <<>>
        /\ ~mutation => Len(probe.calls) = 2
        /\ \A i \in DOMAIN probe.calls :
             /\ withCatalog(probe.calls[i]) = isAskingForProducts(textOf(input))
             /\ probe.calls[i].system.examples = (probe.calls[i].system.catalog # <<>>)
             /\ probe.calls[i].system.catalog \in
                  {<<>>, [k \in DOMAIN productsData |-> productsData[k].id]}

\* C19 happens: a product-seeking query classified none builds the prompt
\* of the primary and of the fallback call with the catalog in both.
C19_Witness ==
  /\ probe.applied
  /\ probe.turn[1].cartAction.action = "none"
  /\ isAskingForProducts(textOf(input))
  /\ Len(probe.calls) = 2
  /\ probe.calls[1].provider = "gemini"
  /\ probe.calls[2].provider = "anthropic"
  /\ withCatalog(probe.calls[1])
  /\ withCatalog(probe.calls[2])


(***************************************************************************)
(* C20.  Cart persistence round trip.  A session that starts with the      *)
(* slot holding the text of an item array C loads C exactly once, and a    *)
(* session that starts with anything else loads nothing; once the pending  *)
(* renders and the save effect have run, the cart is C with the calls of   *)
(* addItem, removeItem, updateQuantity and clearCart applied in order, and *)
(* the slot holds exactly the text of that cart, so the write the first    *)
(* commit makes is never what the slot is left with unless it is the cart  *)
(* of the session; and again and again the slot holds the text of the      *)
(* current cart.                                                           *)
(***************************************************************************)
\* The cart the session starts from.
loadedCart ==
  IF probe.initial.kind = "array" THEN parse(probe.initial) ELSE <<>>

\* Nothing is waiting: no dispatch for a render, no save effect.
settled == probe.mounted /\ probe.queue = <<>> /\ ~probe.saveDue

\* The calls of the session, each reduced as its case of the reducer reads.
RECURSIVE applied(_, _)
applied(cartItems, calls) ==
  IF calls = <<>> THEN cartItems
  ELSE LET call == Head(calls)
           kept(id) == SelectSeq(cartItems, LAMBDA item : item.id # id)
           next ==
             CASE call.type = "ADD_ITEM" ->
                    IF \E i \in DOMAIN cartItems : cartItems[i].id = call.payload
                      THEN [i \in DOMAIN cartItems |->
                              IF cartItems[i].id = call.payload
                                THEN [id |-> call.payload,
                                      quantity |-> cartItems[i].quantity + 1]
                                ELSE cartItems[i]]
                      ELSE cartItems \o << [id |-> call.payload, quantity |-> 1] >>
               [] call.type = "REMOVE_ITEM" -> kept(call.payload)
               [] call.type = "UPDATE_QUANTITY" ->
                    IF call.payload.quantity <= 0
                      THEN kept(call.payload.id)
                      ELSE [i \in DOMAIN cartItems |->
                              IF cartItems[i].id = call.payload.id
                                THEN [id |-> call.payload.id,
                                      quantity |-> call.payload.quantity]
                                ELSE cartItems[i]]
               [] OTHER -> <<>>
       IN  applied(next, Tail(calls))

C20_PersistenceRoundTrip ==
  /\ [](probe.mounted =>
          probe.loads = (IF probe.initial.kind = "array" THEN 1 ELSE 0))
  /\ [](settled =>
          /\ items = applied(loadedCart, probe.calls)
          /\ probe.slot = stringify(items))
  /\ []<>(probe.mounted /\ probe.slot = stringify(items))

\* A session that started from a stored cart of two items, made its calls,
\* and settled with a cart that is neither the stored one nor empty.
C20_Witness ==
  /\ settled
  /\ Len(loadedCart) = 2
  /\ Len(probe.calls) = MaxCalls
  /\ items # loadedCart
  /\ items # <<>>
  /\ probe.slot = stringify(items)

(***************************************************************************)
(* Properties of the interests                                             *)
(***************************************************************************)
\* The categories of userProfile.interests.
interested == {userProfile.interests[i] : i \in DOMAIN userProfile.interests}

\* The folds whose list holds the category.
foldsOf(category) ==
  {i \in DOMAIN probe.folded :
     \E k \in DOMAIN probe.folded[i] : probe.folded[i][k] = category}

\* The categories folded in so far.
seen == {category \in UNION {{l[k] : k \in DOMAIN l} : l \in FoldLists} :
           foldsOf(category) # {}}

\* The last fold whose list holds the category.
lastFold(category) ==
  CHOOSE i \in foldsOf(category) : \A j \in foldsOf(category) : j <= i

\* C21, as stated: userProfile.interests holds the (at most 5) distinct
\* categories most recently folded in; a category folded in again counts as
\* most recent, so no evicted category was suggested later than a category
\* that is kept.
C21_MostRecentlySuggested ==
  /\ interested \subseteq seen
  /\ Cardinality(interested) = Min(Cardinality(seen), MaxInterests)
  /\ Len(userProfile.interests) = Cardinality(interested)
  /\ \A kept \in interested : \A evicted \in seen \ interested :
       lastFold(evicted) <= lastFold(kept)

\* C21, amended: userProfile.interests holds at most 5 distinct categories
\* in the order they were inserted; a fold leaves the categories already
\* present at their positions (one folded in again does not count as most
\* recent), appends the new ones in the order of the list, and evicts from
\* the front what exceeds five, so the evicted ones are those inserted
\* first.
C21_FirstInsertedEvicted ==
  [][probe.folded' # probe.folded =>
       LET list == probe.folded'[Len(probe.folded')]
           old == userProfile.interests
           fresh == {k \in DOMAIN list :
                       /\ list[k] \notin {old[i] : i \in DOMAIN old}
                       /\ \A j \in 1..(k - 1) : list[j] # list[k]}
           appended == old \o
                       [i \in 1..Cardinality(fresh) |->
                          list[CHOOSE k \in fresh :
                                 Cardinality({j \in fresh : j < k}) = i - 1]]
           excess == Max(Len(appended) - MaxInterests, 0)
           new == userProfile'.interests
       IN  /\ Len(new) = Len(appended) - excess
           /\ \A i \in DOMAIN new : new[i] = appended[i + excess]
           /\ \A i, j \in DOMAIN new : i # j => new[i] # new[j]]_vars

\* C21 happens: five interests are held, and a category folded in by the
\* last fold but one has been evicted by the last fold while a category not
\* seen since an earlier fold is kept.
C21_Witness ==
  /\ Len(probe.folded) >= 3
  /\ Len(userProfile.interests) = MaxInterests
  /\ \E evicted \in seen \ interested : \E kept \in interested :
       /\ lastFold(evicted) = Len(probe.folded) - 1
       /\ lastFold(kept) < lastFold(evicted)

\* The categories of the products a message carries.
categoriesOf(message) ==
  {productById(message.products[k]).category : k \in DOMAIN message.products}

\* C22: userProfile.interests changes only in the step in which a turn
\* appends a reply with attached suggestions, and what it gains then is
\* exactly the categories of the attached products that it did not hold; a
\* turn that replies without suggestions (a cart mutation, a conversational
\* reply, a product-seeking turn that found nothing, the failure of both
\* providers) leaves interests unchanged; and a turn classified none makes
\* no call of addItem or removeItem, the cart being the same after the step
\* that accepts it and after the step that ends it.
C22_InterestsFrame ==
  [][/\ userProfile'.interests # userProfile.interests =>
          \E t \in DOMAIN turns' :
            finishes(t) /\ messages'[turns'[t].replyAt].products # <<>>
     /\ \A t \in DOMAIN turns' :
          finishes(t) =>
            LET reply == messages'[turns'[t].replyAt]
                old == {userProfile.interests[i] : i \in DOMAIN userProfile.interests}
                new == {userProfile'.interests[i] : i \in DOMAIN userProfile'.interests}
            IN  IF reply.products # <<>>
                  THEN new \ old = categoriesOf(reply) \ old
                  ELSE userProfile'.interests = userProfile.interests
     /\ \A t \in DOMAIN turns' :
          turns'[t].cartAction.action = "none" =>
            /\ turns'[t].cartCalls = <<>>
            /\ (accepted(t) \/ finishes(t)) => items' = items]_vars

\* C22 happens: a reply attached products and the interests are their
\* categories; a cart turn or a turn whose providers both failed has
\* replied since, and changed nothing of it.
C22_Witness ==
  \E t, u \in doneTurns :
    /\ messages[turns[t].replyAt].products # <<>>
    /\ interested = categoriesOf(messages[turns[t].replyAt])
    /\ turns[t].cartAction.action = "none"
    /\ turns[u].replyAt > turns[t].replyAt
    /\ \/ isCartTurn(turns[u].cartAction)
       \/ turns[u].chainFailed

(***************************************************************************)
(* Properties of the context block                                         *)
(***************************************************************************)
\* The lines that render one message: "User: ..." or "Assistant: ...", the
\* latter followed by the names of the products it carries; none for a
\* message of another type.
linesFor(msg) ==
  CASE msg.type = "user" ->
         << [tag |-> "User", content |-> msg.content, names |-> <<>>] >>
    [] msg.type = "assistant" /\ msg.products = <<>> ->
         << [tag |-> "Assistant", content |-> msg.content, names |-> <<>>] >>
    [] msg.type = "assistant" /\ msg.products # <<>> ->
         << [tag |-> "Assistant", content |-> msg.content, names |-> <<>>],
            [tag |-> "Suggested products", content |-> <<>>,
             names |-> [k \in DOMAIN msg.products |->
                          productById(msg.products[k]).name]] >>
    [] OTHER -> <<>>

RECURSIVE rendersOnly(_, _)
\* The lines render messages of the sequence, each at most once and in the
\* order of the sequence.
rendersOnly(lines, msgs) ==
  IF lines = <<>> THEN TRUE
  ELSE IF msgs = <<>> THEN FALSE
  ELSE LET own == linesFor(Head(msgs))
       IN  IF /\ own # <<>>
              /\ Len(lines) >= Len(own)
              /\ SubSeq(lines, 1, Len(own)) = own
             THEN rendersOnly(SubSeq(lines, Len(own) + 1, Len(lines)), Tail(msgs))
             ELSE rendersOnly(lines, Tail(msgs))

\* The context block is made of the lines of messages among the last six of
\* the history, in history order, and ends with the line of the window if
\* and only if the window is not empty.
isContextOf(ctx, history, window) ==
  LET closing == ctx # <<>> /\ ctx[Len(ctx)].tag = "LAST SUGGESTED PRODUCTS"
      headed == ctx # <<>> /\ ctx[1].tag = "RECENT CONVERSATION"
      body == SubSeq(ctx, IF headed THEN 2 ELSE 1,
                     IF closing THEN Len(ctx) - 1 ELSE Len(ctx))
      recent == SubSeq(history, Max(1, Len(history) - 5), Len(history))
  IN  /\ closing = (window # <<>>)
      /\ closing =>
           ctx[Len(ctx)].names =
             [k \in DOMAIN window |-> productById(window[k]).name]
      /\ \A i \in DOMAIN body :
           body[i].tag \in {"User", "Assistant", "Suggested products"}
      /\ rendersOnly(body, recent)

\* C23: the context block a turn hands to the prompt renders only messages
\* among the 6 most recent of the history as it is when the turn starts, in
\* history order, as "User:" and "Assistant:" lines (none for a message of
\* type error; the line of an assistant message with attached suggestions
\* is followed by a suggested-products line), and ends with a
\* last-suggested-products line that lists the names in window order if and
\* only if lastSuggestedProducts is not empty when the turn starts.
C23_ContextBlock ==
  [][\A t \in DOMAIN turns' :
       accepted(t) =>
         isContextOf(turns'[t].context, messages, lastSuggestedProducts)]_vars

(***************************************************************************)
(* Termination of a turn                                                   *)
(***************************************************************************)
\* Turn t has appended its reply.
completed(t) ==
  /\ t \in doneTurns
  /\ turns[t].replyAt \in DOMAIN messages
  /\ messages[turns[t].replyAt].type \in {"assistant", "error"}

\* C24: provided every provider call resolves or throws, every accepted
\* turn completes: its reply is appended, on the cart path, after the
\* primary provider's answer, after the secondary provider's answer and
\* after the failure of both; isLoading, when set, is reset to false, so
\* that handleSend can accept a later turn; and isLoading is never set
\* while no turn is in flight.
C24_TurnsComplete ==
  /\ []<>(inFlight = {})
  /\ [](\A t \in DOMAIN turns : t \notin inFlight => completed(t))
  /\ [](isLoading => inFlight # {})
  /\ [](inFlight = {} => ~sendRejected([CurrentRender EXCEPT !.input = qHello]))

\* C24 happens: a turn whose two provider calls failed has completed with
\* isLoading reset, and a later turn has been accepted.
C24_Witness ==
  \E t, u \in DOMAIN turns :
    /\ completed(t)
    /\ turns[t].chainFailed
    /\ turns[u].userAt > turns[t].replyAt

(***************************************************************************)
(* The remove confirmation                                                 *)
(***************************************************************************)
\* The names of the products of a cart.
inCart(cartItems) ==
  {productById(cartItems[i].id).name : i \in DOMAIN cartItems}

\* C25: a remove confirmation names a product only if the product was in
\* the cart before the turn and is absent from it after the turn; a remove
\* command that resolves (from lastSuggestedProducts) a product that is not
\* in the cart produces no reply that says it was removed.
C25_RemovedWasInCart ==
  [][\A t \in DOMAIN turns' :
       (finishes(t) /\ messages'[turns'[t].replyAt].content.kind = "removed")
         => LET named == messages'[turns'[t].replyAt].content.names
            IN  \A k \in DOMAIN named :
                  /\ named[k] \in inCart(items)
                  /\ named[k] \notin inCart(items')]_vars

(***************************************************************************)
(* The history while a turn is in flight                                   *)
(***************************************************************************)
\* C26: in the turn history every user message is immediately followed by
\* the reply produced for it: while a turn is in flight the only message
\* appended is the reply of a turn in flight, and the cart is not changed
\* from the assistant panel, neither by a cart turn nor by the Add to Cart
\* and Remove buttons of a suggestion card.
C26_ReplyFollowsUser ==
  [][/\ inFlight # {} =>
          /\ items' = items
          /\ messages' # messages =>
               /\ Len(messages') = Len(messages) + 1
               /\ \E t \in inFlight :
                    finishes(t) /\ turns'[t].replyAt = Len(messages')
     /\ \A t \in DOMAIN turns' :
          /\ turns'[t].userAt < Len(messages') =>
               messages'[turns'[t].userAt + 1].type # "user"
          /\ turns'[t].pc = "done" =>
               turns'[t].replyAt = turns'[t].userAt + 1]_vars

(***************************************************************************)
(* Properties of the cart                                                  *)
(***************************************************************************)
\* The ids of the items of a cart.
idsOf(cartItems) == {cartItems[i].id : i \in DOMAIN cartItems}

\* The cart without the item of the id, the others in their order.
without(cartItems, id) ==
  LET keep == {i \in DOMAIN cartItems : cartItems[i].id # id}
  IN  [n \in 1..Cardinality(keep) |->
         cartItems[CHOOSE i \in keep : Cardinality({j \in keep : j < i}) = n - 1]]

\* C27: after any sequence of addItem, removeItem, updateQuantity and
\* clearCart calls from the empty cart, no two cart items share an id and
\* every cart item has a quantity of at least 1; addItem of a product in the
\* cart adds 1 to its quantity and adds no entry (and appends an entry of
\* quantity 1 otherwise), and updateQuantity with a quantity of 0 or less
\* removes the item and nothing else.
C27_CartWellFormed ==
  /\ [](/\ \A i, j \in DOMAIN items : i # j => items[i].id # items[j].id
        /\ \A i \in DOMAIN items : items[i].quantity >= 1)
  /\ [][probe'.made # probe.made =>
          LET call == probe'.call
          IN  /\ (call.type = "ADD_ITEM" /\ call.payload \in idsOf(items)) =>
                   /\ Len(items') = Len(items)
                   /\ \A i \in DOMAIN items :
                        /\ items'[i].id = items[i].id
                        /\ items'[i].quantity =
                             items[i].quantity +
                               (IF items[i].id = call.payload THEN 1 ELSE 0)
              /\ (call.type = "ADD_ITEM" /\ call.payload \notin idsOf(items)) =>
                   items' = items \o << [id |-> call.payload, quantity |-> 1] >>
              /\ (call.type = "UPDATE_QUANTITY" /\ call.payload.quantity <= 0) =>
                   items' = without(items, call.payload.id)]_vars

\* C27 happens: after four calls, the last an addItem of a product already
\* in the cart, the cart holds that product in one entry of quantity 2.
C27_Witness ==
  /\ probe.made = MaxCartOps
  /\ probe.call = addItem(3)
  /\ items = << [id |-> 3, quantity |-> 2] >>

(***************************************************************************)
(* Several ordinal keywords in one query                                   *)
(***************************************************************************)
\* The place of an ordinal in the order the resolver tests them: first/1st,
\* second/2nd, third/3rd, last.
checkOrder(k) == IF k = 0 THEN 4 ELSE k

\* The ordinal of the query that the resolver tests first.
firstChecked ==
  CHOOSE k \in ordinals : \A other \in ordinals : checkOrder(k) <= checkOrder(other)

\* C28: when a query that names no window product contains several ordinal
\* keywords, determineProductsFromContext returns the product for the
\* keyword that comes first in the order first/1st, second/2nd, third/3rd,
\* last, wherever the keywords stand in the query ("second first" resolves
\* to the first element, as "first second" does).
C28_FixedCheckOrder ==
  (probe.applied /\ noneNamed /\ Cardinality(ordinals) >= 2) =>
    probe.products = atPosition(firstChecked)

\* C28 happens: the query says "second" before "first" and the resolver
\* returns the first of a window of two or more.
C28_Witness ==
  /\ probe.applied
  /\ noneNamed
  /\ input = <<"second", "first">>
  /\ Len(lastSuggestedProducts) >= 2
  /\ probe.products = <<lastSuggestedProducts[1]>>

(***************************************************************************)
(* The scorer and the spaces of a query                                    *)
(***************************************************************************)
\* The query with single spaces: its words without the empty pieces that a
\* doubled, leading or trailing space leaves.
singleSpaced(query) == SelectSeq(query, LAMBDA word : word # "")

\* C29: the result of findRelevantProducts does not depend on the amount of
\* whitespace between the words of the query: a query with a space more
\* between two words, before the first or after the last yields the same
\* products in the same order as the query without it; an empty token adds
\* no score to any product.
C29_WhitespaceIndependent ==
  probe.applied =>
    /\ probe.found = findRelevantProducts(textOf(singleSpaced(input)))
    /\ \A p \in ProductIds :
         scoreOf(productById(p), toLowerCase(textOf(input)))
           = scoreOf(productById(p), toLowerCase(textOf(singleSpaced(input))))

(***************************************************************************)
(* Products that are out of stock                                          *)
(***************************************************************************)
\* C30: a product whose inStock flag is false is never added to the cart
\* through the assistant: an add turn that resolves it from
\* lastSuggestedProducts makes no call of addItem for it (nor does the Add
\* to Cart button of its suggestion card, whose handler makes the same call
\* for the product of the card).
C30_OutOfStockNeverAdded ==
  probe.applied =>
    \A i \in DOMAIN probe.loop.attempted :
      probe.loop.attempted[i].type = "ADD_ITEM" =>
        productById(probe.loop.attempted[i].payload).inStock
=============================================================================
